---- MODULE Spec2Model ----
(***************************************************************************)
(* Beacon: the TUI coordinator (cmd/beacon/main.go), the application state *)
(* (internal/model/appstate.go) and the SSH client wrapper                 *)
(* (internal/ssh/client.go), as one state machine.                         *)
(*                                                                         *)
(* The coordinator is the bubbletea event loop: it calls TUIModel.Update   *)
(* with one message at a time.  A tea.Cmd returned by Update runs on its   *)
(* own goroutine and its return value is delivered back as a message.      *)
(* Go slices are 0-based; the sequences here are 1-based, so element i of  *)
(* a Go slice s is s[i + 1].                                               *)
(***************************************************************************)
EXTENDS Integers, Sequences, FiniteSets, TLC

\* ------------------------------------------------------------------ bounds
\* ConnectionState objects ever allocated (loaded at start or added).
MaxObjs == 2
\* Worker tasks (connect or command) ever dispatched.
MaxTasks == 3
\* Longest text typed into a form field or into the command bar.
MaxFieldLen == 1
\* Largest remote exit status the remote side answers with.
MaxExit == 1

\* ------------------------------------------------------- program constants
\* CommandHistory.MaxSize set by NewAppState.
MaxSize == 1000

\* ViewMode
ModeNormal == "ModeNormal"
ModeAddForm == "ModeAddForm"
ModeCommandInput == "ModeCommandInput"
ModeCommandExecuting == "ModeCommandExecuting"

\* ConnectionStatus
StatusDisconnected == "Disconnected"
StatusConnecting == "Connecting"
StatusConnected == "Connected"
StatusError == "Error"

\* error values (nil, and the messages the code builds with fmt.Errorf)
NoError == "nil"
ErrAuth == "failed to create auth methods"
ErrDial == "failed to dial SSH"
ErrNoActive == "no active connection"
ErrNotConnected == "not connected to server"
ErrSession == "failed to create session"
ErrExec == "command execution failed"

\* A Go pointer that may be nil is a sequence of length 0 (nil) or 1.
Nil == << >>
Ref(x) == << x >>
IsNil(p) == Len(p) = 0
Deref(p) == p[1]

VARIABLES
  heap,           \* ConnectionState objects by address (1..Len(heap))
  Connections,    \* AppState.Connections: addresses of ConnectionState objects
  SelectedIndex,  \* AppState.SelectedIndex (0-based)
  Config,         \* AppState.Config: [Connections, CommandHistory]
  Commands,       \* AppState.CommandHistory.Commands
  disk,           \* the configuration file as last written by SaveConfig
  mode,           \* TUIModel.mode (statusMessage and width are display only)
  form,           \* TUIModel.form
  commandInput,   \* TUIModel.commandInput
  historyIndex,   \* TUIModel.historyIndex
  tasks,          \* tea.Cmd closures running on their goroutines
  msgs,           \* messages returned by finished closures, not yet handled
  nextTask,       \* number of the next task to be dispatched
  OutputScrollOffset, \* AppState.OutputScrollOffset
  authEnv,        \* what createAuthMethods finds: the agent, the key files, ~/.ssh/config
  authMethods,    \* what createAuthMethods returned: (methods, err)
  pattern,        \* matchSSHConfigPattern: its argument pattern
  host,           \* matchSSHConfigPattern: its argument host
  matched,        \* matchSSHConfigPattern: what it returned
  keyPaths,       \* getSSHConfigKeyPaths: what it returned
  height,         \* TUIModel.height, set by tea.WindowSizeMsg
  rendered,       \* renderCommandOutput: the window of lines it drew
  wrapper,        \* an SSHClientWrapper that Disconnect is called on
  disconnected    \* what the calls of Disconnect returned, in order

vars == << heap, Connections, SelectedIndex, Config, Commands, disk, mode, form,
           commandInput, historyIndex, tasks, msgs, nextTask,
           OutputScrollOffset, authEnv, authMethods, pattern, host, matched,
           keyPaths, height, rendered, wrapper, disconnected >>

\* ------------------------------------------------------------ data model
\* model.ConnectionState as built by NewTUIModel and AddConnection.  Its
\* Connection (alias, host, port, user, key path) is never written after it is
\* created and no handler reads it; the address stands for it in Config.
NewConnectionState ==
  [ Status |-> StatusDisconnected, Client |-> Nil, LastError |-> NoError,
    LastActive |-> "zero", Executions |-> << >>, CurrentExec |-> Nil ]

\* NewAddConnectionForm
Fields == << "alias", "host", "user", "port", "key_path" >>
NewAddConnectionForm ==
  [ active |-> 0,
    values |-> [ f \in { Fields[i] : i \in 1..Len(Fields) } |->
                   IF f = "port" THEN << "2", "2" >> ELSE << >> ] ]

\* One shape for every message, so that messages can be kept in one set.
Msg(type, key, task, obj, index, success, err, execution) ==
  [ type |-> type, key |-> key, task |-> task, obj |-> obj, index |-> index,
    success |-> success, err |-> err, execution |-> execution ]
\* tea.KeyMsg
KeyMsg(k) == Msg("KeyMsg", k, 0, 0, 0, FALSE, NoError, Nil)
\* connectResultMsg; task and obj record which attempt the message comes from
ConnectResultMsg(t, index, success, err) ==
  Msg("connectResultMsg", "", t.id, t.obj, index, success, err, Nil)
\* commandResultMsg; task and obj record which run the message comes from
CommandResultMsg(t, index, execution, err) ==
  Msg("commandResultMsg", "", t.id, t.obj, index, FALSE, err, execution)

\* A running closure: what it captured when it was built.
Task(id, kind, obj, index, cmd, phase) ==
  [ id |-> id, kind |-> kind, obj |-> obj, index |-> index, cmd |-> cmd, phase |-> phase ]

\* ---------------------------------------------------------- AppState
\* GetSelected: the address of the selected ConnectionState, or nil
GetSelected ==
  IF SelectedIndex < 0 \/ SelectedIndex >= Len(Connections)
    THEN Nil ELSE Ref(Connections[SelectedIndex + 1])

\* append(s[:index], s[index+1:]...)
RemoveAt(s, index) ==
  [ i \in 1..(Len(s) - 1) |-> IF i <= index THEN s[i] ELSE s[i + 1] ]

\* SaveConfig: json.MarshalIndent of the Config, written to the config file
SaveConfig(config) == config

\* AddConnection that leaves the new connection out of the Config
AddConnection_NotInConfig ==
  LET o == Len(heap) + 1 IN
    /\ heap' = Append(heap, NewConnectionState)
    /\ Connections' = Append(Connections, o)
    /\ Config' = Config

\* AddConnection: a new ConnectionState at a fresh address, appended to both lists
AddConnection ==
  LET o == Len(heap) + 1 IN
    /\ heap' = Append(heap, NewConnectionState)
    /\ Connections' = Append(Connections, o)
    /\ Config' = [ Config EXCEPT !.Connections = Append(@, o) ]

\* DeleteConnection that never moves the selection
DeleteConnection_NoAdjust(index) ==
  IF index < 0 \/ index >= Len(Config.Connections)
    THEN UNCHANGED << Connections, Config, SelectedIndex >>
    ELSE /\ Config' = [ Config EXCEPT !.Connections = RemoveAt(@, index) ]
         /\ Connections' = RemoveAt(Connections, index)
         /\ SelectedIndex' = SelectedIndex

\* DeleteConnection(index): the error returned, true for "invalid connection
\* index"
DeleteConnectionErr(index) == index < 0 \/ index >= Len(Config.Connections)

\* DeleteConnection(index); an index outside Config.Connections is an error
\* (logged by the caller) and changes nothing
DeleteConnection(index) ==
  IF index < 0 \/ index >= Len(Config.Connections)
    THEN UNCHANGED << Connections, Config, SelectedIndex >>
    ELSE /\ Config' = [ Config EXCEPT !.Connections = RemoveAt(@, index) ]
         /\ Connections' = RemoveAt(Connections, index)
         /\ SelectedIndex' =
              IF SelectedIndex >= Len(Connections) - 1 /\ SelectedIndex > 0
                THEN SelectedIndex - 1 ELSE SelectedIndex

\* SelectNext
SelectNext ==
  SelectedIndex' =
    IF Len(Connections) = 0 THEN SelectedIndex
    ELSE (SelectedIndex + 1) % Len(Connections)

\* SelectPrevious
SelectPrevious ==
  SelectedIndex' =
    IF Len(Connections) = 0 THEN SelectedIndex
    ELSE (SelectedIndex - 1 + Len(Connections)) % Len(Connections)

\* AddToHistory that does not compare the command with the last entry
AddToHistory_NoAdjacentCheck(cmds, confHist, cmd) ==
  IF cmd = << >> THEN [ Commands |-> cmds, CommandHistory |-> confHist ]
  ELSE LET app == Append(cmds, cmd)
           kept == IF Len(app) > MaxSize THEN Tail(app) ELSE app
       IN [ Commands |-> kept, CommandHistory |-> kept ]

\* AddToHistory that drops the newest entry, not the oldest, when over MaxSize
AddToHistory_EvictNewest(cmds, confHist, cmd) ==
  IF cmd = << >> THEN [ Commands |-> cmds, CommandHistory |-> confHist ]
  ELSE IF Len(cmds) > 0 /\ cmds[Len(cmds)] = cmd
    THEN [ Commands |-> cmds, CommandHistory |-> confHist ]
  ELSE LET app == Append(cmds, cmd)
           kept == IF Len(app) > MaxSize
                     THEN Append(SubSeq(app, 1, MaxSize - 1), cmd) ELSE app
       IN [ Commands |-> kept, CommandHistory |-> kept ]

\* AddToHistory that ignores a command stored anywhere in the history
AddToHistory_GlobalDedup(cmds, confHist, cmd) ==
  IF cmd = << >> THEN [ Commands |-> cmds, CommandHistory |-> confHist ]
  ELSE IF \E i \in 1..Len(cmds) : cmds[i] = cmd
    THEN [ Commands |-> cmds, CommandHistory |-> confHist ]
  ELSE LET app == Append(cmds, cmd)
           kept == IF Len(app) > MaxSize THEN Tail(app) ELSE app
       IN [ Commands |-> kept, CommandHistory |-> kept ]

\* AddToHistory(cmd): the new CommandHistory.Commands and Config.CommandHistory
AddToHistory(cmds, confHist, cmd) ==
  IF cmd = << >> THEN [ Commands |-> cmds, CommandHistory |-> confHist ]
  ELSE IF Len(cmds) > 0 /\ cmds[Len(cmds)] = cmd
    THEN [ Commands |-> cmds, CommandHistory |-> confHist ]
  ELSE LET app == Append(cmds, cmd)
           kept == IF Len(app) > MaxSize THEN Tail(app) ELSE app
       IN [ Commands |-> kept, CommandHistory |-> kept ]

\* GetHistoryItem that counts from the oldest entry
GetHistoryItem_Forward(index) ==
  IF index < 0 \/ index >= Len(Commands) THEN << >>
  ELSE Commands[index + 1]

\* GetHistoryItem(index): most recent first, "" when out of range
GetHistoryItem(index) ==
  IF index < 0 \/ index >= Len(Commands) THEN << >>
  ELSE Commands[(Len(Commands) - 1 - index) + 1]

\* HistorySize
HistorySize == Len(Commands)

\* ------------------------------------------------- AddConnectionForm
GetActiveField(f) == IF f.active < Len(Fields) THEN Fields[f.active + 1] ELSE ""
NextField(f) == [ f EXCEPT !.active = (f.active + 1) % Len(Fields) ]
PrevField(f) == [ f EXCEPT !.active = IF f.active - 1 < 0 THEN Len(Fields) - 1 ELSE f.active - 1 ]
AddChar(f, ch) == [ f EXCEPT !.values[GetActiveField(f)] = Append(@, ch) ]
RemoveChar(f) ==
  [ f EXCEPT !.values[GetActiveField(f)] = IF Len(@) > 0 THEN SubSeq(@, 1, Len(@) - 1) ELSE @ ]
IsValid(f) == f.values["alias"] # << >> /\ f.values["host"] # << >> /\ f.values["user"] # << >>

\* ------------------------------------------------- variable groups
appVars == << heap, Connections, SelectedIndex, Config, Commands, disk >>
uiVars == << mode, form, commandInput, historyIndex >>
asyncVars == << tasks, msgs, nextTask >>
\* The scroll offset (moved only by "pgup" and "pgdown") and the state of the
\* ssh package's resolvers, which the handlers below leave alone.
callVars == << keyPaths, height, rendered, wrapper, disconnected >>
libVars == << OutputScrollOffset, authEnv, authMethods, pattern, host, matched, callVars >>

\* ------------------------------------------------- handleKeyPress, add form
\* case "esc"
FormEsc ==
  /\ mode' = ModeNormal
  /\ form' = NewAddConnectionForm
  /\ UNCHANGED << appVars, asyncVars, commandInput, historyIndex >>

\* case "tab", case "shift+tab", case "backspace", default
FormEdit(newForm) ==
  /\ form' = newForm
  /\ UNCHANGED << appVars, asyncVars, mode, commandInput, historyIndex >>

\* case "enter": a valid form adds the connection and saves the configuration
FormEnter ==
  IF IsValid(form)
    THEN /\ Len(heap) < MaxObjs
         /\ AddConnection
         /\ disk' = SaveConfig(Config')
         /\ mode' = ModeNormal
         /\ form' = NewAddConnectionForm
         /\ UNCHANGED << SelectedIndex, Commands, asyncVars, commandInput, historyIndex >>
    ELSE UNCHANGED << appVars, uiVars, asyncVars >>

\* ------------------------------------------------- handleKeyPress, normal keys
\* case "up", case "down"
KeySelect(next) ==
  /\ IF next THEN SelectNext ELSE SelectPrevious
  /\ UNCHANGED << heap, Connections, Config, Commands, disk, uiVars, asyncVars >>

\* case "a"
KeyAdd ==
  /\ mode' = ModeAddForm
  /\ form' = NewAddConnectionForm
  /\ UNCHANGED << appVars, asyncVars, commandInput, historyIndex >>

\* case "d"
KeyDelete ==
  IF Len(Connections) > 0
    THEN /\ DeleteConnection(SelectedIndex)
         /\ disk' = SaveConfig(Config')
         /\ UNCHANGED << heap, Commands, uiVars, asyncVars >>
    ELSE UNCHANGED << appVars, uiVars, asyncVars >>

\* connectToSelectedServer: the closure captures the selected ConnectionState
connectToSelectedServer(selected) ==
  /\ nextTask <= MaxTasks
  /\ tasks' = tasks \cup { Task(nextTask, "connect", selected, 0, << >>, "dial") }
  /\ nextTask' = nextTask + 1
  /\ UNCHANGED msgs

\* case "c" without the check of the status
KeyConnect_NoGuard ==
  IF mode = ModeNormal /\ ~IsNil(GetSelected)
    THEN LET cs == Deref(GetSelected) IN
      /\ heap' = [ heap EXCEPT ![cs].Status = StatusConnecting ]
      /\ connectToSelectedServer(cs)
      /\ UNCHANGED << Connections, SelectedIndex, Config, Commands, disk, uiVars >>
    ELSE UNCHANGED << appVars, uiVars, asyncVars >>

\* case "c" that dispatches without marking the connection Connecting
KeyConnect_NoMark ==
  IF mode = ModeNormal /\ ~IsNil(GetSelected)
    THEN LET cs == Deref(GetSelected) IN
      IF heap[cs].Status = StatusConnecting \/ heap[cs].Status = StatusConnected
        THEN UNCHANGED << appVars, uiVars, asyncVars >>
        ELSE /\ connectToSelectedServer(cs)
             /\ UNCHANGED << appVars, uiVars >>
    ELSE UNCHANGED << appVars, uiVars, asyncVars >>

\* case "c"
KeyConnect ==
  IF mode = ModeNormal /\ ~IsNil(GetSelected)
    THEN LET cs == Deref(GetSelected) IN
      IF heap[cs].Status = StatusConnecting \/ heap[cs].Status = StatusConnected
        THEN UNCHANGED << appVars, uiVars, asyncVars >>
        ELSE /\ heap' = [ heap EXCEPT ![cs].Status = StatusConnecting ]
             /\ connectToSelectedServer(cs)
             /\ UNCHANGED << Connections, SelectedIndex, Config, Commands, disk, uiVars >>
    ELSE UNCHANGED << appVars, uiVars, asyncVars >>

\* case ":"
KeyColon ==
  IF ~IsNil(GetSelected) /\ heap[Deref(GetSelected)].Status = StatusConnected
    THEN /\ mode' = ModeCommandInput
         /\ commandInput' = << >>
         /\ historyIndex' = -1
         /\ UNCHANGED << appVars, asyncVars, form >>
    ELSE UNCHANGED << appVars, uiVars, asyncVars >>

\* handleKeyPress
handleKeyPress(k) ==
  IF mode = ModeAddForm
    THEN CASE k = "esc" -> FormEsc
           [] k = "tab" -> FormEdit(NextField(form))
           [] k = "shift+tab" -> FormEdit(PrevField(form))
           [] k = "enter" -> FormEnter
           [] k = "backspace" -> FormEdit(RemoveChar(form))
           [] OTHER -> FormEdit(IF Len(k) = 1 THEN AddChar(form, k) ELSE form)
    ELSE CASE k = "up" -> KeySelect(FALSE)
           [] k = "down" -> KeySelect(TRUE)
           [] k = "a" -> KeyAdd
           [] k = "d" -> KeyDelete
           [] k = "c" -> KeyConnect
           [] k = ":" -> KeyColon
           [] OTHER -> UNCHANGED << appVars, uiVars, asyncVars >>

\* ------------------------------------------------- handleCommandInput
\* executeCommand(cmd): builds the closure; with a session to run against it
\* captures the selected ConnectionState and its index and marks the run
executeCommand(cmd) ==
  /\ nextTask <= MaxTasks
  /\ nextTask' = nextTask + 1
  /\ UNCHANGED msgs
  /\ IF IsNil(GetSelected) \/ IsNil(heap[Deref(GetSelected)].Client)
       THEN /\ tasks' = tasks \cup
                 { Task(nextTask, "noconn",
                        IF IsNil(GetSelected) THEN 0 ELSE Deref(GetSelected), 0, cmd, "run") }
            /\ UNCHANGED heap
       ELSE LET selected == Deref(GetSelected) IN
            /\ heap' = [ heap EXCEPT ![selected].CurrentExec =
                           Ref([ Command |-> cmd, ExitCode |-> 0, Completed |-> FALSE ]) ]
            /\ tasks' = tasks \cup
                 { Task(nextTask, "exec", selected, SelectedIndex, cmd, "run") }

\* case "esc"
CmdEsc ==
  /\ mode' = ModeNormal
  /\ commandInput' = << >>
  /\ historyIndex' = -1
  /\ UNCHANGED << appVars, asyncVars, form >>

\* case "enter"
CmdEnter ==
  IF commandInput = << >>
    THEN /\ mode' = ModeNormal
         /\ UNCHANGED << appVars, asyncVars, form, commandInput, historyIndex >>
    ELSE LET h == AddToHistory(Commands, Config.CommandHistory, commandInput) IN
         /\ Commands' = h.Commands
         /\ Config' = [ Config EXCEPT !.CommandHistory = h.CommandHistory ]
         /\ commandInput' = << >>
         /\ historyIndex' = -1
         /\ mode' = ModeCommandExecuting
         /\ executeCommand(commandInput)
         /\ UNCHANGED << Connections, SelectedIndex, disk, form >>

\* case "up"
CmdUp ==
  IF historyIndex < HistorySize - 1
    THEN /\ historyIndex' = historyIndex + 1
         /\ commandInput' = GetHistoryItem(historyIndex + 1)
         /\ UNCHANGED << appVars, asyncVars, mode, form >>
    ELSE UNCHANGED << appVars, uiVars, asyncVars >>

\* case "down"
CmdDown ==
  IF historyIndex > 0
    THEN /\ historyIndex' = historyIndex - 1
         /\ commandInput' = GetHistoryItem(historyIndex - 1)
         /\ UNCHANGED << appVars, asyncVars, mode, form >>
    ELSE IF historyIndex = 0
      THEN /\ historyIndex' = -1
           /\ commandInput' = << >>
           /\ UNCHANGED << appVars, asyncVars, mode, form >>
      ELSE UNCHANGED << appVars, uiVars, asyncVars >>

\* case "backspace", default
CmdEdit(newInput) ==
  /\ commandInput' = newInput
  /\ UNCHANGED << appVars, asyncVars, mode, form, historyIndex >>

\* handleCommandInput
handleCommandInput(k) ==
  CASE k = "esc" -> CmdEsc
    [] k = "enter" -> CmdEnter
    [] k = "up" -> CmdUp
    [] k = "down" -> CmdDown
    [] k = "backspace" ->
         CmdEdit(IF Len(commandInput) > 0
                   THEN SubSeq(commandInput, 1, Len(commandInput) - 1) ELSE commandInput)
    [] OTHER -> CmdEdit(IF Len(k) = 1 THEN Append(commandInput, k) ELSE commandInput)

\* ------------------------------------------------- Update
\* case connectResultMsg
UpdateConnectResult(msg) ==
  /\ msgs' = msgs \ { msg }
  /\ heap' =
       IF msg.index >= 0 /\ msg.index < Len(Connections)
         THEN LET cs == Connections[msg.index + 1] IN
           IF msg.success
             THEN [ heap EXCEPT ![cs].Status = StatusConnected,
                                ![cs].LastError = NoError,
                                ![cs].LastActive = "now" ]
             ELSE [ heap EXCEPT ![cs].Status = StatusError,
                                ![cs].LastError = msg.err ]
         ELSE heap
  /\ UNCHANGED << Connections, SelectedIndex, Config, Commands, disk, uiVars, tasks, nextTask >>

\* case commandResultMsg that keeps only the latest execution in the log
UpdateCommandResult_KeepLatest(msg) ==
  /\ msgs' = msgs \ { msg }
  /\ heap' =
       IF msg.index >= 0 /\ msg.index < Len(Connections)
         THEN LET cs == Connections[msg.index + 1] IN
           IF msg.err # NoError
             THEN [ heap EXCEPT ![cs].Status = StatusError,
                                ![cs].LastError = msg.err,
                                ![cs].CurrentExec = Nil ]
             ELSE [ heap EXCEPT ![cs].Executions = << Deref(msg.execution) >>,
                                ![cs].CurrentExec = Nil ]
         ELSE heap
  /\ mode' = ModeNormal
  /\ UNCHANGED << Connections, SelectedIndex, Config, Commands, disk, form, commandInput,
                  historyIndex, tasks, nextTask >>

\* case commandResultMsg
UpdateCommandResult(msg) ==
  /\ msgs' = msgs \ { msg }
  /\ heap' =
       IF msg.index >= 0 /\ msg.index < Len(Connections)
         THEN LET cs == Connections[msg.index + 1] IN
           IF msg.err # NoError
             THEN [ heap EXCEPT ![cs].Status = StatusError,
                                ![cs].LastError = msg.err,
                                ![cs].CurrentExec = Nil ]
             ELSE [ heap EXCEPT ![cs].Executions = Append(@, Deref(msg.execution)),
                                ![cs].CurrentExec = Nil ]
         ELSE heap
  /\ mode' = ModeNormal
  /\ UNCHANGED << Connections, SelectedIndex, Config, Commands, disk, form, commandInput,
                  historyIndex, tasks, nextTask >>

\* Update
Update(msg) ==
  CASE msg.type = "connectResultMsg" -> UpdateConnectResult(msg)
    [] msg.type = "commandResultMsg" -> UpdateCommandResult(msg)
    [] msg.type = "KeyMsg" ->
         IF mode = ModeCommandInput THEN handleCommandInput(msg.key)
                                    ELSE handleKeyPress(msg.key)

\* ------------------------------------------------- ssh client wrapper
\* What the remote side does with one run: whether NewSession succeeds, and how
\* session.Run ends ("ok", "exit" with a non-zero status, or "fail": any other error)
Remotes ==
  { [ session |-> FALSE, run |-> "ok", status |-> 0 ],
    [ session |-> TRUE, run |-> "ok", status |-> 0 ],
    [ session |-> TRUE, run |-> "fail", status |-> 0 ] }
  \cup { [ session |-> TRUE, run |-> "exit", status |-> n ] : n \in 1..MaxExit }

\* ExecuteCommand that reports every error of session.Run, an exit status too
ExecuteCommand_ExitIsError(s, remote) ==
  IF ~s.connected \/ s.client = "nil" THEN [ result |-> Nil, err |-> ErrNotConnected ]
  ELSE IF ~remote.session THEN [ result |-> Nil, err |-> ErrSession ]
  ELSE IF remote.run = "exit" \/ remote.run = "fail" THEN [ result |-> Nil, err |-> ErrExec ]
  ELSE [ result |-> Ref([ ExitCode |-> 0, Error |-> NoError ]), err |-> NoError ]

\* SSHClientWrapper.ExecuteCommand: (result, err)
ExecuteCommand(s, remote) ==
  IF ~s.connected \/ s.client = "nil" THEN [ result |-> Nil, err |-> ErrNotConnected ]
  ELSE IF ~remote.session THEN [ result |-> Nil, err |-> ErrSession ]
  ELSE IF remote.run = "exit"
    THEN [ result |-> Ref([ ExitCode |-> remote.status, Error |-> NoError ]), err |-> NoError ]
  ELSE IF remote.run = "fail" THEN [ result |-> Nil, err |-> ErrExec ]
  ELSE [ result |-> Ref([ ExitCode |-> 0, Error |-> NoError ]), err |-> NoError ]

\* ssh.Connect: the wrapper of a dialled client.  Its field client is "nil" for
\* no ssh.Client, and else the state of the ssh.Client's transport, "open" or
\* "closed".
NewClient(id) == [ id |-> id, connected |-> TRUE, client |-> "open" ]

\* ------------------------------------------------- worker goroutines
\* The closure of connectToSelectedServer, up to the return of ssh.Connect: a
\* failure returns the message at once, a success stores the client in the
\* captured ConnectionState.
ConnectDial ==
  \E t \in tasks : \E outcome \in { "ok", ErrAuth, ErrDial } :
    /\ t.kind = "connect" /\ t.phase = "dial"
    /\ IF outcome = "ok"
         THEN /\ heap' = [ heap EXCEPT ![t.obj].Client = Ref(NewClient(t.id)) ]
              /\ tasks' = (tasks \ { t }) \cup { [ t EXCEPT !.phase = "dialed" ] }
              /\ UNCHANGED msgs
         ELSE /\ msgs' = msgs \cup { ConnectResultMsg(t, SelectedIndex, FALSE, outcome) }
              /\ tasks' = tasks \ { t }
              /\ UNCHANGED heap
    /\ UNCHANGED << Connections, SelectedIndex, Config, Commands, disk, uiVars, nextTask, libVars >>

\* The closure of connectToSelectedServer after a successful dial: the message
\* carries the index selected when the closure returns.
ConnectReturn ==
  \E t \in tasks :
    /\ t.kind = "connect" /\ t.phase = "dialed"
    /\ msgs' = msgs \cup { ConnectResultMsg(t, SelectedIndex, TRUE, NoError) }
    /\ tasks' = tasks \ { t }
    /\ UNCHANGED << appVars, uiVars, nextTask, libVars >>

\* The closure of executeCommand that runs the command on the captured
\* ConnectionState's client; remote is what the remote side does with the run.
RunCommandOn(t, remote) ==
  /\ t.kind = "exec"
  /\ LET r == ExecuteCommand(Deref(heap[t.obj].Client), remote) IN
       msgs' = msgs \cup
         { IF r.err # NoError
             THEN CommandResultMsg(t, t.index, Nil, r.err)
             ELSE CommandResultMsg(t, t.index,
                    Ref([ Command |-> t.cmd, ExitCode |-> Deref(r.result).ExitCode,
                          Completed |-> TRUE ]), NoError) }
  /\ tasks' = tasks \ { t }
  /\ UNCHANGED << appVars, uiVars, nextTask, libVars >>

RunCommand == \E t \in tasks : \E remote \in Remotes : RunCommandOn(t, remote)

\* The closure of executeCommand built when there is no session to run against.
RunNoConnection ==
  \E t \in tasks :
    /\ t.kind = "noconn"
    /\ msgs' = msgs \cup { CommandResultMsg(t, SelectedIndex, Nil, ErrNoActive) }
    /\ tasks' = tasks \ { t }
    /\ UNCHANGED << appVars, uiVars, nextTask, libVars >>

\* ------------------------------------------------- the event loop
\* The keys pressed.  ("q" and "ctrl+c" end the program; "pgup" and "pgdown"
\* move only the scroll offset and are pressed in ScrollSpec; every key not
\* named in a switch takes its default branch, as "tab" does in normal mode.)
Keys == { "up", "down", "a", "d", "c", ":", "enter", "esc", "tab", "shift+tab", "backspace" }
\* The characters typed as text, and the form fields they are typed into.
TextChars == { "c" }
TypedFields == { "alias", "host", "user" }

\* The keys the operator presses in the current mode: any key outside the text
\* modes.  In the add form the operator fills the typed fields in order: text
\* goes into a typed field within the bound, tab leaves a filled field,
\* shift+tab an empty one, and enter and esc are pressed at any time.  In the
\* command bar the operator types text within the bound and presses any of
\* the control keys.
InputAllowed(k) ==
  CASE mode = ModeAddForm ->
         LET f == GetActiveField(form) IN
         \/ k \in { "esc", "enter" }
         \/ k = "tab" /\ f \in TypedFields /\ form.values[f] # << >>
         \/ k = "shift+tab" /\ f \in TypedFields /\ form.values[f] = << >> /\ form.active > 0
         \/ k = "backspace" /\ f \in TypedFields
         \/ k \in TextChars /\ f \in TypedFields /\ Len(form.values[f]) < MaxFieldLen
    [] mode = ModeCommandInput ->
         \/ k \in { "esc", "enter", "up", "down", "backspace" }
         \/ k \in TextChars /\ Len(commandInput) < MaxFieldLen
    [] OTHER -> TRUE

\* The TUIModel built by NewTUIModel, with no closure dispatched yet.
NewTUIModel ==
  /\ mode = ModeNormal
  /\ form = NewAddConnectionForm
  /\ commandInput = << >>
  /\ historyIndex = -1
  /\ tasks = { }
  /\ msgs = { }
  /\ nextTask = 1

\* NewAppState's scroll offset, and the ssh package's resolvers not called.
NoEnv == [ none |-> TRUE ]
CallIdle ==
  /\ keyPaths = Nil
  /\ height = 0
  /\ rendered = Nil
  /\ wrapper = Nil
  /\ disconnected = << >>

LibIdle ==
  /\ CallIdle
  /\ OutputScrollOffset = 0
  /\ authEnv = NoEnv
  /\ authMethods = Nil
  /\ pattern = << >>
  /\ host = << >>
  /\ matched = Nil

\* NewTUIModel: the configuration file holds some connections and no history
Init ==
  \E n \in 0..MaxObjs :
    /\ heap = [ i \in 1..n |-> NewConnectionState ]
    /\ Connections = [ i \in 1..n |-> i ]
    /\ SelectedIndex = 0
    /\ Config = [ Connections |-> [ i \in 1..n |-> i ], CommandHistory |-> << >> ]
    /\ Commands = << >>
    /\ disk = [ Connections |-> [ i \in 1..n |-> i ], CommandHistory |-> << >> ]
    /\ NewTUIModel
    /\ LibIdle

\* A key press reaches Update.
PressKey ==
  \E k \in Keys :
    /\ InputAllowed(k)
    /\ Update(KeyMsg(k))
    /\ UNCHANGED libVars

\* A connect closure's message reaches Update.
ConnectResult ==
  \E m \in msgs :
    /\ m.type = "connectResultMsg"
    /\ Update(m)
    /\ UNCHANGED libVars

\* A command closure's message reaches Update.
CommandResult ==
  \E m \in msgs :
    /\ m.type = "commandResultMsg"
    /\ Update(m)
    /\ UNCHANGED libVars

Next ==
  \/ PressKey
  \/ ConnectResult
  \/ CommandResult
  \/ ConnectDial
  \/ ConnectReturn
  \/ RunCommand
  \/ RunNoConnection

Spec == Init /\ [][Next]_vars

\* ------------------------------------------------- vocabulary of the properties
\* The addresses of all ConnectionState objects, and of those in the registry.
Objs == 1..Len(heap)
Registered == { Connections[i] : i \in 1..Len(Connections) }
\* The operator presses key k and Update handles it.
KeyStep(k) == InputAllowed(k) /\ Update(KeyMsg(k)) /\ UNCHANGED libVars
\* The connect closures in flight, and the connect attempts of o not yet applied.
ConnectTasks == { t \in tasks : t.kind = "connect" }
\* The command runs dispatched on o whose result has not been applied yet.
OutstandingRuns(o) ==
  { t.id : t \in { u \in tasks : u.kind = "exec" /\ u.obj = o } }
  \cup { m.task : m \in { n \in msgs : n.type = "commandResultMsg" /\ n.obj = o
                                       /\ n.err \notin { ErrNoActive } } }

\* ------------------------------------------------- C1
\* C1: a connect request (key "c") on a selected connection whose status is
\* Connecting or Connected changes neither that connection's status nor its
\* Client, and dispatches no connect task.
C1_ReentrancyGuard ==
  [][ \A o \in Objs :
        ( /\ GetSelected = Ref(o)
          /\ heap[o].Status \in { StatusConnecting, StatusConnected }
          /\ KeyStep("c") )
        => /\ heap'[o].Status = heap[o].Status
           /\ heap'[o].Client = heap[o].Client
           /\ { t \in tasks' : t.kind = "connect" } \subseteq ConnectTasks
           /\ nextTask' = nextTask ]_vars

\* C1 witness: in normal mode the selected connection is Connecting with its
\* attempt in flight, and handling "c" there is a step that changes nothing.
C1_Witness ==
  /\ mode = ModeNormal
  /\ ~IsNil(GetSelected)
  /\ heap[Deref(GetSelected)].Status = StatusConnecting
  /\ \E t \in ConnectTasks : t.obj = Deref(GetSelected)
  /\ ENABLED (KeyStep("c") /\ UNCHANGED vars)

\* ------------------------------------------------- C2
\* C2: when the result of a connect attempt dispatched on connection C (still in
\* the registry) is applied, it is C whose status becomes Connected (LastError
\* cleared, LastActive recorded) or Error (cause recorded), and the status of
\* every other connection is left alone.
C2_ConnectResultCorrelated ==
  [][ \A m \in msgs :
        ( /\ m.type = "connectResultMsg"
          /\ m.obj \in Registered
          /\ UpdateConnectResult(m) )
        => /\ IF m.success
                THEN /\ heap'[m.obj].Status = StatusConnected
                     /\ heap'[m.obj].LastError = NoError
                     /\ heap'[m.obj].LastActive = "now"
                ELSE /\ heap'[m.obj].Status = StatusError
                     /\ heap'[m.obj].LastError = m.err
           /\ \A o \in Objs \ { m.obj } : heap'[o].Status = heap[o].Status ]_vars

\* ------------------------------------------------- C3
\* C3: at most one command run per connection is dispatched and not yet applied.
C3_OneOutstandingRun ==
  \A o \in Objs : Cardinality(OutstandingRuns(o)) <= 1

\* ------------------------------------------------- C4
\* The edges of the connection state machine.
Edges ==
  { << StatusDisconnected, StatusConnecting >>, << StatusConnecting, StatusConnected >>,
    << StatusConnecting, StatusError >>, << StatusConnected, StatusDisconnected >>,
    << StatusConnected, StatusError >>, << StatusError, StatusConnecting >> }

\* C4: every change of a connection's status is an edge of the state machine.
C4_OnlyStateMachineEdges ==
  [][ \A o \in Objs :
        heap'[o].Status # heap[o].Status
        => << heap[o].Status, heap'[o].Status >> \in Edges ]_vars

\* ------------------------------------------------- C5
\* What a connect request on o brings about: o is Connecting and exactly one
\* connect task, on o, is dispatched.
ConnectDispatched(o) ==
  /\ heap'[o].Status = StatusConnecting
  /\ \E t \in tasks' :
       /\ t.kind = "connect" /\ t.obj = o /\ t.phase = "dial"
       /\ tasks' = tasks \cup { t }
       /\ t \notin tasks

\* C5 as stated: wherever "c" is a command key (outside the two text modes), a
\* connect request on a selected connection that is Disconnected or Error sets
\* it Connecting in the same step and dispatches exactly one connect task.
C5_ConnectRequestStarts ==
  \A o \in Objs :
    ( /\ mode \notin { ModeAddForm, ModeCommandInput }
      /\ GetSelected = Ref(o)
      /\ heap[o].Status \in { StatusDisconnected, StatusError }
      /\ nextTask <= MaxTasks )
    => ENABLED (KeyStep("c") /\ ConnectDispatched(o))

\* C5 amended: the same in mode ModeNormal; from Error this re-enters Connecting.
\* (nextTask <= MaxTasks: the bound on dispatched tasks leaves room for one more.)
C5_ConnectRequestStartsInNormalMode ==
  \A o \in Objs :
    ( /\ mode = ModeNormal
      /\ GetSelected = Ref(o)
      /\ heap[o].Status \in { StatusDisconnected, StatusError }
      /\ nextTask <= MaxTasks )
    => /\ ENABLED (KeyStep("c") /\ ConnectDispatched(o))
       /\ ~ ENABLED (KeyStep("c") /\ ~ConnectDispatched(o))

\* C5 witness: a connection that was in Error is Connecting again with its new
\* attempt in flight, before any result of it exists.
C5_Witness ==
  \E o \in Objs :
    /\ heap[o].Status = StatusConnecting
    /\ heap[o].LastError # NoError
    /\ \E t \in ConnectTasks : t.obj = o /\ t.phase = "dial"

\* ------------------------------------------------- C6
\* The remote side answers a run with the non-zero exit status n.
RemoteExit(n) == [ session |-> TRUE, run |-> "exit", status |-> n ]

\* C6: a run on a connected session that the remote side ends with exit status
\* n # 0 returns no error and a CommandExecution with Completed = TRUE and
\* ExitCode = n; applying that result changes no connection's Status or LastError.
C6_NonZeroExitIsData ==
  [][ /\ \A t \in tasks : \A n \in 1..MaxExit :
           ( /\ t.kind = "exec"
             /\ Deref(heap[t.obj].Client).connected
             /\ RunCommandOn(t, RemoteExit(n)) )
           => \E m \in msgs' \ msgs :
                /\ m.type = "commandResultMsg" /\ m.task = t.id
                /\ m.err = NoError
                /\ ~IsNil(m.execution)
                /\ Deref(m.execution).Completed
                /\ Deref(m.execution).ExitCode = n
      /\ \A m \in msgs :
           ( /\ m.type = "commandResultMsg"
             /\ ~IsNil(m.execution)
             /\ Deref(m.execution).ExitCode # 0
             /\ UpdateCommandResult(m) )
           => \A o \in Objs : /\ heap'[o].Status = heap[o].Status
                              /\ heap'[o].LastError = heap[o].LastError ]_vars

\* C6 witness: a Connected connection with no error whose log holds a completed
\* execution with a non-zero exit code.
C6_Witness ==
  \E o \in Registered :
    /\ heap[o].Status = StatusConnected
    /\ heap[o].LastError = NoError
    /\ \E i \in 1..Len(heap[o].Executions) :
         heap[o].Executions[i].Completed /\ heap[o].Executions[i].ExitCode # 0

\* ------------------------------------------------- C7
\* C7: a transport failure of a command run (no session, or a run that fails
\* with anything but an exit status) carries no CommandExecution; applying it
\* appends to no log and sets the connection the command ran against (still in
\* the registry) to Error with the cause in LastError.
C7_TransportFailureMarksError ==
  [][ \A m \in msgs :
        ( /\ m.type = "commandResultMsg"
          /\ m.err \in { ErrSession, ErrExec }
          /\ m.obj \in Registered
          /\ UpdateCommandResult(m) )
        => /\ IsNil(m.execution)
           /\ \A o \in Objs : heap'[o].Executions = heap[o].Executions
           /\ heap'[m.obj].Status = StatusError
           /\ heap'[m.obj].LastError = m.err ]_vars

\* ------------------------------------------------- C8
\* C8: applying the result of a completed run appends the execution once to the
\* log of the connection it ran against (still in the registry), to no other
\* log, and clears that connection's CurrentExec.
C8_ExecutionLoggedOnItsConnection ==
  [][ \A m \in msgs :
        ( /\ m.type = "commandResultMsg"
          /\ ~IsNil(m.execution)
          /\ m.obj \in Registered
          /\ UpdateCommandResult(m) )
        => /\ heap'[m.obj].Executions = Append(heap[m.obj].Executions, Deref(m.execution))
           /\ heap'[m.obj].CurrentExec = Nil
           /\ \A o \in Objs \ { m.obj } : heap'[o].Executions = heap[o].Executions ]_vars

\* ------------------------------------------------- C9
\* C9: an execution-precondition failure ("no active connection", "not
\* connected to server") changes no connection's Status or LastError.
C9_PreconditionFailureKeepsStatus ==
  [][ \A m \in msgs :
        ( /\ m.type = "commandResultMsg"
          /\ m.err \in { ErrNoActive, ErrNotConnected }
          /\ UpdateCommandResult(m) )
        => \A o \in Objs : /\ heap'[o].Status = heap[o].Status
                           /\ heap'[o].LastError = heap[o].LastError ]_vars

\* ------------------------------------------------- C10
\* C10: a command run (the closure that calls ExecuteCommand) is dispatched only
\* on a connection whose status is Connected when the command is submitted.
C10_RunOnlyWhenConnected ==
  [][ \A t \in tasks' \ tasks :
        t.kind = "exec" => heap[t.obj].Status = StatusConnected ]_vars

\* ------------------------------------------------- C11
\* C11: in every reachable state and for every connection of the registry, a
\* non-empty CurrentExec implies that the status is Connected and that exactly
\* one command run dispatched on the connection has not had its result applied.
C11_CurrentExecOnlyWhileRunning ==
  \A o \in Registered :
    ~IsNil(heap[o].CurrentExec)
    => /\ heap[o].Status = StatusConnected
       /\ Cardinality(OutstandingRuns(o)) = 1

\* ------------------------------------------------- the command history alone
\* AddToHistory called on a history that starts empty, as NewAppState builds
\* it.  The commands submitted: the empty string and two commands at any time,
\* and a third one only once the history is full and while it is not stored
\* (so a history that holds it has seen an eviction).
CmdA == << "a" >>
CmdB == << "b" >>
CmdC == << "c" >>
HistoryInputs ==
  { << >>, CmdA, CmdB }
  \cup { c \in { CmdC } : Len(Commands) = MaxSize /\ \A i \in 1..Len(Commands) : Commands[i] # c }

\* app.AddToHistory(cmd)
HistoryAdd(cmd) ==
  LET h == AddToHistory(Commands, Config.CommandHistory, cmd) IN
  /\ Commands' = h.Commands
  /\ Config' = [ Config EXCEPT !.CommandHistory = h.CommandHistory ]
  /\ UNCHANGED << heap, Connections, SelectedIndex, disk, uiVars, asyncVars, libVars >>

\* NewAppState with no configuration file
HistoryInit ==
  /\ heap = << >>
  /\ Connections = << >>
  /\ SelectedIndex = 0
  /\ Config = [ Connections |-> << >>, CommandHistory |-> << >> ]
  /\ Commands = << >>
  /\ disk = [ Connections |-> << >>, CommandHistory |-> << >> ]
  /\ NewTUIModel
  /\ LibIdle

HistoryNext == \E cmd \in HistoryInputs : HistoryAdd(cmd)

HistorySpec == HistoryInit /\ [][HistoryNext]_vars

\* ------------------------------------------------- C12
\* C12: starting from an empty history, after any sequence of AddToHistory
\* calls no two adjacent stored entries are equal, no stored entry is the empty
\* string, and the stored length never exceeds MaxSize.
C12_HistoryLogInvariant ==
  /\ \A i \in 1..(Len(Commands) - 1) : Commands[i] # Commands[i + 1]
  /\ \A i \in 1..Len(Commands) : Commands[i] # << >>
  /\ Len(Commands) <= MaxSize

\* C12 witness: a full history that has seen an eviction.
C12_Witness ==
  /\ Len(Commands) = MaxSize
  /\ \E i \in 1..Len(Commands) : Commands[i] = CmdC

\* ------------------------------------------------- C13
\* The history after cmd evicted the oldest entry: every surviving entry one
\* place nearer the front, cmd last, the size still MaxSize.
EvictedOldest(cmd) ==
  Commands' = [ i \in 1..MaxSize |-> IF i < MaxSize THEN Commands[i + 1] ELSE cmd ]

\* C13: when the history holds exactly MaxSize entries, AddToHistory of a
\* non-empty command different from the most recent entry removes the single
\* oldest entry and appends the command; the size stays MaxSize and the order
\* of the surviving entries is unchanged.
C13_FifoEviction ==
  \A cmd \in HistoryInputs :
    ( /\ Len(Commands) = MaxSize
      /\ cmd # << >>
      /\ cmd # Commands[Len(Commands)] )
    => /\ ENABLED (HistoryAdd(cmd) /\ EvictedOldest(cmd))
       /\ ~ ENABLED (HistoryAdd(cmd) /\ ~EvictedOldest(cmd))

\* C13 witness: the third command entered a full history at its end and the
\* evictions since have moved it to the front.
C13_Witness ==
  /\ Len(Commands) = MaxSize
  /\ Commands[1] = CmdC

\* ------------------------------------------------- C14
\* cmd is appended: it is the most recent entry and the entries before it are
\* the old ones (all of them, or all but the oldest when the history was full).
Appended(cmd) ==
  LET n == IF Len(Commands) < MaxSize THEN Len(Commands) + 1 ELSE MaxSize
      d == Len(Commands) + 1 - n
  IN Commands' = [ i \in 1..n |-> IF i < n THEN Commands[i + d] ELSE cmd ]

\* C14: AddToHistory leaves the history unchanged when the command is the
\* empty string or equals the most recently stored entry; a command equal to
\* an older entry, not the most recent one, is appended.
C14_AdjacentSuppressionOnly ==
  \A cmd \in HistoryInputs :
    /\ ( cmd = << >> \/ (Len(Commands) > 0 /\ cmd = Commands[Len(Commands)]) )
       => ~ ENABLED (HistoryAdd(cmd) /\ (Commands' # Commands \/ Config' # Config))
    /\ ( /\ cmd # << >>
         /\ Len(Commands) > 0 /\ cmd # Commands[Len(Commands)]
         /\ \E i \in 1..(Len(Commands) - 1) : Commands[i] = cmd )
       => /\ ENABLED (HistoryAdd(cmd) /\ Appended(cmd))
          /\ ~ ENABLED (HistoryAdd(cmd) /\ ~Appended(cmd))

\* C14 witness: a command is stored twice with another one in between.
C14_Witness ==
  \E i \in 1..(Len(Commands) - 2) :
    Commands[i] = Commands[i + 2] /\ Commands[i] # Commands[i + 1]

\* ------------------------------------------------- C15
\* C15: GetHistoryItem(i) is the entry i positions back from the most recently
\* stored one (0: the command just appended, or the one whose repetition was
\* suppressed; size - 1: the oldest stored), it is the empty string for every
\* i < 0 and every i >= HistorySize(), and HistorySize() is the number of
\* stored entries.
C15_GetHistoryItem ==
  /\ [] ( /\ HistorySize = Len(Commands)
          /\ \A i \in 0..(Len(Commands) - 1) : GetHistoryItem(i) = Commands[Len(Commands) - i]
          /\ Len(Commands) > 0 => GetHistoryItem(HistorySize - 1) = Head(Commands)
          /\ \A i \in { -2, -1, HistorySize, HistorySize + 1, HistorySize + MaxSize } :
               GetHistoryItem(i) = << >> )
  /\ [][ \A cmd \in HistoryInputs :
           (cmd # << >> /\ HistoryAdd(cmd))
           => /\ GetHistoryItem(0)' = cmd
              /\ \A i \in 1..(HistorySize' - 1) : GetHistoryItem(i)' = GetHistoryItem(i - 1) ]_vars

\* C15 witness: a full history whose most recent entry differs from its oldest.
C15_Witness ==
  /\ HistorySize = MaxSize
  /\ GetHistoryItem(0) # GetHistoryItem(MaxSize - 1)
  /\ GetHistoryItem(0) = CmdC

\* ------------------------------------------------- ssh: host patterns
\* A Go string is the sequence of its characters.
\* strings.Contains(s, "*")
ContainsStar(s) == \E i \in 1..Len(s) : s[i] = "*"
\* strings.ReplaceAll(s, "*", ".*")
RECURSIVE ReplaceAllStar(_)
ReplaceAllStar(s) ==
  IF s = << >> THEN << >>
  ELSE (IF Head(s) = "*" THEN << ".", "*" >> ELSE << Head(s) >>) \o ReplaceAllStar(Tail(s))
\* strings.HasPrefix, strings.HasSuffix
HasPrefix(s, prefix) == Len(s) >= Len(prefix) /\ SubSeq(s, 1, Len(prefix)) = prefix
HasSuffix(s, suffix) ==
  Len(s) >= Len(suffix) /\ SubSeq(s, Len(s) - Len(suffix) + 1, Len(s)) = suffix
\* s[n:]
SliceFrom(s, n) == SubSeq(s, n + 1, Len(s))
\* s[:n]
SliceTo(s, n) == SubSeq(s, 1, n)

\* matchSSHConfigPattern that removes one character of ".*", not both
matchSSHConfigPattern_StripOne(pat, h) ==
  IF pat = h THEN TRUE
  ELSE IF ContainsStar(pat)
    THEN LET re == ReplaceAllStar(pat) IN
      IF HasPrefix(re, << ".", "*" >>)
        THEN HasSuffix(h, SliceFrom(re, 1))
      ELSE IF HasSuffix(re, << ".", "*" >>)
        THEN HasPrefix(h, SliceTo(re, Len(re) - 1))
      ELSE FALSE
  ELSE FALSE

\* matchSSHConfigPattern(pattern, host)
matchSSHConfigPattern(pat, h) ==
  IF pat = h THEN TRUE
  ELSE IF ContainsStar(pat)
    THEN LET re == ReplaceAllStar(pat) IN
      IF HasPrefix(re, << ".", "*" >>)
        THEN HasSuffix(h, SliceFrom(re, 2))
      ELSE IF HasSuffix(re, << ".", "*" >>)
        THEN HasPrefix(h, SliceTo(re, Len(re) - 2))
      ELSE FALSE
  ELSE FALSE

\* Longest pattern and host drawn from the alphabet.
MaxPatternLen == 3
\* The characters patterns and hosts are made of.
PatternChars == { "*", ".", "a", "b" }
RECURSIVE StringsUpTo(_)
StringsUpTo(n) ==
  IF n = 0 THEN { << >> }
  ELSE LET shorter == StringsUpTo(n - 1) IN
       shorter \cup { Append(w, c) : w \in shorter, c \in PatternChars }

\* The patterns and hosts of the documented examples.
StarExampleCom == << "*", ".", "e", "x", "a", "m", "p", "l", "e", ".", "c", "o", "m" >>
AExampleCom == << "a", ".", "e", "x", "a", "m", "p", "l", "e", ".", "c", "o", "m" >>
ExampleCom == << "e", "x", "a", "m", "p", "l", "e", ".", "c", "o", "m" >>
Net192Star == << "1", "9", "2", ".", "1", "6", "8", ".", "1", ".", "*" >>
Net192Host42 == << "1", "9", "2", ".", "1", "6", "8", ".", "1", ".", "4", "2" >>
Host1 == << "h", "o", "s", "t", "1" >>
Host2 == << "h", "o", "s", "t", "2" >>
ExamplePatterns == { StarExampleCom, Net192Star, Host1 }
ExampleHosts == { AExampleCom, ExampleCom, Net192Host42, Host1, Host2 }

\* A pattern and a host are given; matchSSHConfigPattern has not been called.
PatternInit ==
  /\ heap = << >>
  /\ Connections = << >>
  /\ SelectedIndex = 0
  /\ Config = [ Connections |-> << >>, CommandHistory |-> << >> ]
  /\ Commands = << >>
  /\ disk = [ Connections |-> << >>, CommandHistory |-> << >> ]
  /\ NewTUIModel
  /\ OutputScrollOffset = 0
  /\ authEnv = NoEnv
  /\ authMethods = Nil
  /\ pattern \in StringsUpTo(MaxPatternLen) \cup ExamplePatterns
  /\ host \in StringsUpTo(MaxPatternLen) \cup ExampleHosts
  /\ matched = Nil
  /\ CallIdle

\* hostMatches = matchSSHConfigPattern(currentHost, host)
MatchPattern ==
  /\ IsNil(matched)
  /\ matched' = Ref(matchSSHConfigPattern(pattern, host))
  /\ UNCHANGED << appVars, uiVars, asyncVars, OutputScrollOffset, authEnv, authMethods,
                  pattern, host, callVars >>

PatternNext == MatchPattern

PatternSpec == PatternInit /\ [][PatternNext]_vars

\* ------------------------------------------------- C18
\* h ends in suffix; h starts with prefix.
EndsIn(h, suffix) ==
  /\ Len(suffix) <= Len(h)
  /\ \A i \in 1..Len(suffix) : h[Len(h) - Len(suffix) + i] = suffix[i]
StartsWith(h, prefix) ==
  /\ Len(prefix) <= Len(h)
  /\ \A i \in 1..Len(prefix) : h[i] = prefix[i]

\* C18: a pattern equal to the host matches; a pattern "*suffix" (one wildcard,
\* in front) matches exactly the hosts ending in suffix and a pattern "prefix*"
\* (one wildcard, at the end) exactly the hosts starting with prefix; and
\* match("*.example.com", "a.example.com"), match("192.168.1.*", "192.168.1.42")
\* and match("host1", "host1") are true, match("*.example.com", "example.com")
\* and match("host1", "host2") are false.
C18_PatternMatching ==
  ~IsNil(matched) =>
    LET r == Deref(matched) IN
    /\ pattern = host => r
    /\ ( /\ Len(pattern) > 0 /\ pattern[1] = "*"
         /\ ~ContainsStar(Tail(pattern)) )
       => (r <=> EndsIn(host, Tail(pattern)))
    /\ ( /\ Len(pattern) > 0 /\ pattern[Len(pattern)] = "*"
         /\ ~ContainsStar(SubSeq(pattern, 1, Len(pattern) - 1)) )
       => (r <=> StartsWith(host, SubSeq(pattern, 1, Len(pattern) - 1)))
    /\ (pattern = StarExampleCom /\ host = AExampleCom) => r
    /\ (pattern = StarExampleCom /\ host = ExampleCom) => ~r
    /\ (pattern = Net192Star /\ host = Net192Host42) => r
    /\ (pattern = Host1 /\ host = Host1) => r
    /\ (pattern = Host1 /\ host = Host2) => ~r

\* C18 witness: "*.example.com" was matched against "example.com", with the
\* answer no.
C18_Witness ==
  /\ pattern = StarExampleCom
  /\ host = ExampleCom
  /\ matched = Ref(FALSE)

\* ------------------------------------------------- ssh: authentication methods
\* The error of createAuthMethods
ErrNoAuthMethods == "no valid authentication methods found"

\* Files, by their expanded path.
IdRsa == "/home/.ssh/id_rsa"
IdEd25519 == "/home/.ssh/id_ed25519"
IdEcdsa == "/home/.ssh/id_ecdsa"
KeyK == "/keys/k"
KeyC1 == "/keys/c1"
KeyC2 == "/keys/c2"
KeyFiles == { IdRsa, IdEd25519, IdEcdsa, KeyK, KeyC1, KeyC2 }
\* The one path written with "~/", and what filepath.Join(home, path[2:]) makes of it
TildeIdRsa == "~/.ssh/id_rsa"
JoinHome(path) == IF path = TildeIdRsa THEN IdRsa ELSE path

\* expandPath: (path, err)
expandPath(path) ==
  IF path = "" THEN [ path |-> path, err |-> FALSE ]
  ELSE IF path = TildeIdRsa
    THEN IF authEnv.home THEN [ path |-> JoinHome(path), err |-> FALSE ]
                         ELSE [ path |-> "", err |-> TRUE ]
  ELSE [ path |-> path, err |-> FALSE ]

\* loadPrivateKey: (signer, err); the signer is named by the file it was read from
loadPrivateKey(keyPath) ==
  LET e == expandPath(keyPath) IN
  IF e.err THEN [ signer |-> "", err |-> TRUE ]
  ELSE IF e.path \notin KeyFiles \/ authEnv.files[e.path] = "unreadable"
    THEN [ signer |-> "", err |-> TRUE ]
  ELSE IF authEnv.files[e.path] = "unparsable" THEN [ signer |-> "", err |-> TRUE ]
  ELSE [ signer |-> e.path, err |-> FALSE ]

\* getDefaultKeyPaths that leaves out id_ed25519
getDefaultKeyPaths_NoEd25519 ==
  IF ~authEnv.home THEN << >> ELSE << IdRsa, IdEcdsa >>

\* getDefaultKeyPaths
getDefaultKeyPaths ==
  IF ~authEnv.home THEN << >> ELSE << IdRsa, IdEd25519, IdEcdsa >>

\* The IdentityFile value written with "~", and what filepath.Join(home,
\* keyPath[1:]) makes of it
ExpandHome(keyPath) == IF keyPath = TildeIdRsa THEN IdRsa ELSE keyPath

\* The loop in which a Host line can set the flag but never clears it
RECURSIVE ScanConfig_StickyMatch(_, _, _)
ScanConfig_StickyMatch(lines, h, hostMatches) ==
  IF lines = << >> THEN << >>
  ELSE LET line == Head(lines) IN
    IF line.kind = "Host"
      THEN ScanConfig_StickyMatch(Tail(lines), h,
                                  hostMatches \/ matchSSHConfigPattern(line.arg, h))
    ELSE IF hostMatches /\ line.kind = "IdentityFile"
      THEN << ExpandHome(line.arg) >> \o ScanConfig_StickyMatch(Tail(lines), h, hostMatches)
    ELSE ScanConfig_StickyMatch(Tail(lines), h, hostMatches)

\* The loop of getSSHConfigKeyPaths over the lines left of the file.  The kind
\* of a line is what the tests of the loop make of the trimmed line: "blank",
\* "comment" (it starts with "#"), "Host" (it starts with "Host "),
\* "IdentityFile" (it starts with "IdentityFile "), or "other".
RECURSIVE ScanConfig(_, _, _)
ScanConfig(lines, h, hostMatches) ==
  IF lines = << >> THEN << >>
  ELSE LET line == Head(lines) IN
    IF line.kind = "blank" \/ line.kind = "comment"
      THEN ScanConfig(Tail(lines), h, hostMatches)
    ELSE IF line.kind = "Host"
      THEN ScanConfig(Tail(lines), h, matchSSHConfigPattern(line.arg, h))
    ELSE IF hostMatches /\ line.kind = "IdentityFile"
      THEN << ExpandHome(line.arg) >> \o ScanConfig(Tail(lines), h, hostMatches)
    ELSE ScanConfig(Tail(lines), h, hostMatches)

\* getSSHConfigKeyPaths(host)
getSSHConfigKeyPaths(h) ==
  IF ~authEnv.home THEN << >>
  ELSE IF IsNil(authEnv.config) THEN << >>
  ELSE ScanConfig(Deref(authEnv.config), h, FALSE)

\* getAgentMethods: one method holding all the agent's signers, or none
getAgentMethods ==
  IF authEnv.agent = "unset" THEN << >>
  ELSE IF authEnv.agent = "nodial" THEN << >>
  ELSE IF authEnv.agent = "nosigners" THEN << >>
  ELSE << [ from |-> "agent", key |-> "agent" ] >>

\* The loops of createAuthMethods: a method for every path whose key loads;
\* from records the step of createAuthMethods that made the method.
RECURSIVE LoadKeys(_, _)
LoadKeys(paths, from) ==
  IF paths = << >> THEN << >>
  ELSE LET k == loadPrivateKey(Head(paths)) IN
       (IF k.err THEN << >> ELSE << [ from |-> from, key |-> k.signer ] >>)
       \o LoadKeys(Tail(paths), from)

\* createAuthMethods that tries the default keys before those of ~/.ssh/config
createAuthMethods_DefaultsFirst(keyPath, h) ==
  LET all == getAgentMethods
             \o (IF keyPath # "" THEN LoadKeys(<< keyPath >>, "explicit") ELSE << >>)
             \o LoadKeys(getDefaultKeyPaths, "default")
             \o LoadKeys(getSSHConfigKeyPaths(h), "config")
  IN IF Len(all) = 0 THEN [ methods |-> << >>, err |-> ErrNoAuthMethods ]
     ELSE [ methods |-> all, err |-> NoError ]

\* createAuthMethods that gives up when the key at the explicit path does not load
createAuthMethods_FailOnBadKey(keyPath, h) ==
  LET all == getAgentMethods
             \o (IF keyPath # "" THEN LoadKeys(<< keyPath >>, "explicit") ELSE << >>)
             \o LoadKeys(getSSHConfigKeyPaths(h), "config")
             \o LoadKeys(getDefaultKeyPaths, "default")
  IN IF Len(all) = 0 \/ (keyPath # "" /\ loadPrivateKey(keyPath).err)
       THEN [ methods |-> << >>, err |-> ErrNoAuthMethods ]
       ELSE [ methods |-> all, err |-> NoError ]

\* createAuthMethods(keyPath, host): (authMethods, err)
createAuthMethods(keyPath, h) ==
  LET all == getAgentMethods
             \o (IF keyPath # "" THEN LoadKeys(<< keyPath >>, "explicit") ELSE << >>)
             \o LoadKeys(getSSHConfigKeyPaths(h), "config")
             \o LoadKeys(getDefaultKeyPaths, "default")
  IN IF Len(all) = 0 THEN [ methods |-> << >>, err |-> ErrNoAuthMethods ]
     ELSE [ methods |-> all, err |-> NoError ]

\* Most lines of ~/.ssh/config.
MaxConfigLines == 3
\* The host connected to, a Host pattern that matches it and one that does not.
AuthHost == << "a", "b" >>
ConfigLines ==
  { [ kind |-> "Host", arg |-> p ] : p \in { << "a", "*" >>, << "b", "*" >> } }
  \cup { [ kind |-> "IdentityFile", arg |-> f ] : f \in { KeyC1, KeyC2 } }
RECURSIVE ConfigsUpTo(_)
ConfigsUpTo(n) ==
  IF n = 0 THEN { << >> }
  ELSE LET shorter == ConfigsUpTo(n - 1) IN
       shorter \cup { Append(w, l) : w \in shorter, l \in ConfigLines }

\* The environments of a call: the explicit key path of the connection, the
\* agent, the home directory, ~/.ssh/config and the state of every key file.
AuthEnvs ==
  [ keyPath : { "", KeyK, TildeIdRsa },
    agent : { "unset", "nodial", "nosigners", "signers" },
    home : BOOLEAN,
    config : { Nil } \cup { Ref(c) : c \in ConfigsUpTo(MaxConfigLines) },
    files : [ KeyFiles -> { "ok", "unreadable", "unparsable" } ] ]

\* An environment is given; createAuthMethods has not been called.
AuthInit ==
  /\ heap = << >>
  /\ Connections = << >>
  /\ SelectedIndex = 0
  /\ Config = [ Connections |-> << >>, CommandHistory |-> << >> ]
  /\ Commands = << >>
  /\ disk = [ Connections |-> << >>, CommandHistory |-> << >> ]
  /\ NewTUIModel
  /\ OutputScrollOffset = 0
  /\ authEnv \in AuthEnvs
  /\ authMethods = Nil
  /\ pattern = << >>
  /\ host = AuthHost
  /\ matched = Nil
  /\ CallIdle

\* authMethods, err := createAuthMethods(keyPath, host)
CreateAuth ==
  /\ IsNil(authMethods)
  /\ authMethods' = Ref(createAuthMethods(authEnv.keyPath, host))
  /\ UNCHANGED << appVars, uiVars, asyncVars, OutputScrollOffset, authEnv, pattern, host,
                  matched, callVars >>

AuthNext == CreateAuth

AuthSpec == AuthInit /\ [][AuthNext]_vars

\* ------------------------------------------------- C16
\* The key file at path holds a key that can be read and parsed.
Usable(path) == authEnv.files[path] = "ok"
\* The file the explicit key path names, if it names one that can be found.
ExplicitDeclared ==
  IF authEnv.keyPath = "" THEN << >>
  ELSE IF authEnv.keyPath = TildeIdRsa
    THEN (IF authEnv.home THEN << IdRsa >> ELSE << >>)
  ELSE << authEnv.keyPath >>
\* Line i of the client configuration is an IdentityFile line of a block whose
\* Host pattern matches h.
InMatchingBlock(lines, i, h) ==
  /\ lines[i].kind = "IdentityFile"
  /\ \E j \in 1..(i - 1) :
       /\ lines[j].kind = "Host"
       /\ \A k \in (j + 1)..(i - 1) : lines[k].kind # "Host"
       /\ matchSSHConfigPattern(lines[j].arg, h)
\* The identity files of the matching blocks, in file order.
ConfigDeclared(h) ==
  IF ~authEnv.home \/ IsNil(authEnv.config) THEN << >>
  ELSE LET lines == Deref(authEnv.config)
           idx == SelectSeq([ i \in 1..Len(lines) |-> i ],
                            LAMBDA i : InMatchingBlock(lines, i, h))
       IN [ k \in 1..Len(idx) |-> lines[idx[k]].arg ]
\* The default key files, in their order.
DefaultDeclared == IF authEnv.home THEN << IdRsa, IdEd25519, IdEcdsa >> ELSE << >>
\* The position of a step of createAuthMethods.
StepRank(from) ==
  CASE from = "agent" -> 1 [] from = "explicit" -> 2 [] from = "config" -> 3
    [] from = "default" -> 4
\* The keys of the methods that step from contributed, in the order returned.
KeysFrom(ms, from) ==
  LET part == SelectSeq(ms, LAMBDA m : m.from = from) IN
  [ k \in 1..Len(part) |-> part[k].key ]

UsableCandidates ==
  (IF authEnv.agent = "signers" THEN { [ from |-> "agent", key |-> "agent" ] } ELSE { })
  \cup { [ from |-> "explicit", key |-> ExplicitDeclared[i] ] :
           i \in { n \in 1..Len(ExplicitDeclared) : Usable(ExplicitDeclared[n]) } }
  \cup { [ from |-> "config", key |-> ConfigDeclared(host)[i] ] :
           i \in { n \in 1..Len(ConfigDeclared(host)) : Usable(ConfigDeclared(host)[n]) } }
  \cup { [ from |-> "default", key |-> DefaultDeclared[i] ] :
           i \in { n \in 1..Len(DefaultDeclared) : Usable(DefaultDeclared[n]) } }

\* C17: createAuthMethods fails, with the no-credentials error, if and only if
\* the four steps found no usable candidate; when it succeeds the list is
\* non-empty and holds every usable candidate: a key that cannot be read or
\* parsed removes only itself and is never reported.
C17_NoCredentialsOnlyWhenNone ==
  ~IsNil(authMethods) =>
    LET r == Deref(authMethods) IN
    /\ r.err \in { NoError, ErrNoAuthMethods }
    /\ (r.err = ErrNoAuthMethods) <=> (UsableCandidates = { })
    /\ r.err = NoError =>
         /\ Len(r.methods) > 0
         /\ { r.methods[i] : i \in 1..Len(r.methods) } = UsableCandidates

\* C17 witness: a call succeeded although the key at the explicit path could
\* not be parsed and a default key could not be read.
C17_Witness ==
  /\ ~IsNil(authMethods)
  /\ Deref(authMethods).err = NoError
  /\ authEnv.keyPath = KeyK /\ authEnv.files[KeyK] = "unparsable"
  /\ authEnv.home /\ authEnv.files[IdRsa] = "unreadable"
  /\ authEnv.agent # "signers"

\* ------------------------------------------------- the scrollback alone
\* Executions in the log, characters of an execution's Stdout or Stderr, and
\* the offset beyond which the operator stops scrolling up.
MaxExecs == 2
MaxOutLen == 2
MaxOffset == 30
\* The lines of one "pgup" or "pgdown".
PageLines == 10

\* strings.Split(s, "\n"): the pieces between the newlines, one more than newlines
NL == "\n"
RECURSIVE SplitLines(_)
SplitLines(s) ==
  IF \A i \in 1..Len(s) : s[i] # NL THEN << s >>
  ELSE LET i == CHOOSE j \in 1..Len(s) : s[j] = NL /\ \A k \in 1..(j - 1) : s[k] # NL
       IN << SubSeq(s, 1, i - 1) >> \o SplitLines(SubSeq(s, i + 1, Len(s)))

\* The estimate that counts two lines for an execution, not three
RECURSIVE EstimateLines_TwoPerExec(_)
EstimateLines_TwoPerExec(execs) ==
  IF execs = << >> THEN 0
  ELSE LET exec == Head(execs) IN
       2 + Len(SplitLines(exec.Stdout))
         + (IF exec.Stderr # << >> THEN Len(SplitLines(exec.Stderr)) + 1 ELSE 0)
         + EstimateLines_TwoPerExec(Tail(execs))

\* The loop of ScrollOutputUp: the estimate of the lines of a log
RECURSIVE EstimateLines(_)
EstimateLines(execs) ==
  IF execs = << >> THEN 0
  ELSE LET exec == Head(execs) IN
       3 + Len(SplitLines(exec.Stdout))
         + (IF exec.Stderr # << >> THEN Len(SplitLines(exec.Stderr)) + 1 ELSE 0)
         + EstimateLines(Tail(execs))

\* ScrollOutputUp(lines)
ScrollOutputUp(lines) ==
  LET moved == OutputScrollOffset + lines
      selected == GetSelected
  IN OutputScrollOffset' =
       IF ~IsNil(selected) /\ Len(heap[Deref(selected)].Executions) > 0
         THEN LET totalLines == EstimateLines(heap[Deref(selected)].Executions) IN
              IF moved > totalLines THEN totalLines ELSE moved
         ELSE moved

\* ScrollOutputDown(lines)
ScrollOutputDown(lines) ==
  LET moved == OutputScrollOffset - lines IN
  OutputScrollOffset' = IF moved < 0 THEN 0 ELSE moved

\* The texts of Stdout and Stderr, and the logs made of completed executions.
RECURSIVE OutputsUpTo(_)
OutputsUpTo(n) ==
  IF n = 0 THEN { << >> }
  ELSE LET shorter == OutputsUpTo(n - 1) IN
       shorter \cup { Append(w, c) : w \in shorter, c \in { "x", NL } }
LoggedExecutions ==
  { [ Command |-> CmdA, ExitCode |-> 0, Completed |-> TRUE, Stdout |-> o, Stderr |-> e ] :
      o \in OutputsUpTo(MaxOutLen), e \in OutputsUpTo(MaxOutLen) }
RECURSIVE LogsUpTo(_)
LogsUpTo(n) ==
  IF n = 0 THEN { << >> }
  ELSE LET shorter == LogsUpTo(n - 1) IN
       shorter \cup { Append(w, x) : w \in shorter, x \in LoggedExecutions }
\* The number of lines scrolled by in one call.
ScrollLines == { 1, PageLines }

\* No connection, or one connection, selected, with a log of executions.
ScrollInit ==
  /\ \/ /\ heap = << >>
        /\ Connections = << >>
     \/ /\ \E log \in LogsUpTo(MaxExecs) :
             heap = << [ NewConnectionState EXCEPT !.Status = StatusConnected,
                                                   !.Client = Ref(NewClient(1)),
                                                   !.LastActive = "now",
                                                   !.Executions = log ] >>
        /\ Connections = << 1 >>
  /\ SelectedIndex = 0
  /\ Config = [ Connections |-> Connections, CommandHistory |-> << >> ]
  /\ Commands = << >>
  /\ disk = Config
  /\ NewTUIModel
  /\ LibIdle

\* case "pgup" (and ScrollOutputUp with any other number of lines)
ScrollUp ==
  \E n \in ScrollLines :
    /\ OutputScrollOffset + n <= MaxOffset
    /\ ScrollOutputUp(n)
    /\ UNCHANGED << heap, Connections, SelectedIndex, Config, Commands, disk, uiVars,
                    asyncVars, authEnv, authMethods, pattern, host, matched, callVars >>

\* case "pgdown" (and ScrollOutputDown with any other number of lines)
ScrollDown ==
  \E n \in ScrollLines :
    /\ ScrollOutputDown(n)
    /\ UNCHANGED << heap, Connections, SelectedIndex, Config, Commands, disk, uiVars,
                    asyncVars, authEnv, authMethods, pattern, host, matched, callVars >>

ScrollNext == ScrollUp \/ ScrollDown

ScrollSpec == ScrollInit /\ [][ScrollNext]_vars

\* ------------------------------------------------- C19
\* The estimated total line count of the selected connection's log.
SelectedTotal == EstimateLines(heap[Deref(GetSelected)].Executions)

\* C19: with a connection selected, ScrollOutputUp(n) increases
\* OutputScrollOffset by n and pins it at the estimated total line count of the
\* selected connection's log whenever the sum would exceed that total;
\* ScrollOutputDown(n) decreases it by n and pins it at 0 whenever the
\* difference would be negative.
C19_ScrollClamped ==
  [][ \A n \in ScrollLines :
        /\ ( ~IsNil(GetSelected) /\ ScrollOutputUp(n) /\ UNCHANGED heap )
           => OutputScrollOffset' =
                IF OutputScrollOffset + n > SelectedTotal
                  THEN SelectedTotal ELSE OutputScrollOffset + n
        /\ ( ScrollOutputDown(n) /\ UNCHANGED heap )
           => OutputScrollOffset' =
                IF OutputScrollOffset - n < 0 THEN 0 ELSE OutputScrollOffset - n ]_vars

\* ------------------------------------------------- C20
\* A step of a worker task: of a connect closure or of a command closure.
WorkerStep == ConnectDial \/ ConnectReturn \/ RunCommand \/ RunNoConnection

\* C20: between its dispatch and the handling of its result message a worker
\* task writes no field of any ConnectionState (Client included) and none of
\* AppState: its steps change only the tasks and the messages in flight.
C20_WorkersOnlySendMessages ==
  [][ WorkerStep => UNCHANGED appVars ]_vars

\* ------------------------------------------------- C21
\* C21: no session handle stays open that is not owned by a ConnectionState of
\* the registry: the Client of a deleted connection has been closed, whether
\* it was live at the deletion or was stored by a connect attempt that
\* completed after it.
C21_DeletedConnectionTornDown ==
  \A o \in Objs \ Registered :
    IsNil(heap[o].Client) \/ Deref(heap[o].Client).client # "open"

\* ------------------------------------------------- C23
\* C23: after every handled event the configuration file holds the Config in
\* memory, its connections and its command history: every add, delete and
\* history append is followed by SaveConfig in the same handler step.
C23_ConfigPersisted ==
  /\ disk = SaveConfig(Config)
  /\ disk.CommandHistory = Commands

\* ------------------------------------------------- C25
\* Every connect closure runs to its end and its message is delivered.
FairSpec ==
  Spec /\ WF_vars(ConnectDial) /\ WF_vars(ConnectReturn) /\ WF_vars(ConnectResult)

\* C25: every connection that is Connecting is later Connected or in Error (or
\* is no longer in the registry).
C25_ConnectResolves ==
  \A o \in 1..MaxObjs :
    (o \in Registered /\ heap[o].Status = StatusConnecting)
    ~> (o \notin Registered \/ heap[o].Status \in { StatusConnected, StatusError })

\* ------------------------------------------------- C26
\* C26: in every reachable state and for every connection of the registry,
\* LastError is present only if the status is Error.
C26_LastErrorOnlyInError ==
  \A o \in Registered :
    heap[o].LastError # NoError => heap[o].Status = StatusError

\* ------------------------------------------------- ssh: Disconnect
\* The number of calls of Disconnect on one wrapper.
MaxCalls == 12
ErrClose == "failed to close SSH connection"

\* s.client.Close() of golang.org/x/crypto/ssh: it closes the net.Conn under the
\* client.  The close of an open transport may succeed or fail, and a failed
\* one may or may not have released the transport; the close of a transport
\* already closed fails (net: "use of closed network connection").  Each
\* outcome is the error returned and the transport's state afterwards.
CloseOutcomes(client) ==
  IF client = "open"
    THEN { [ err |-> NoError, client |-> "closed" ],
           [ err |-> ErrClose, client |-> "closed" ],
           [ err |-> ErrClose, client |-> "open" ] }
    ELSE { [ err |-> ErrClose, client |-> "closed" ] }

\* SSHClientWrapper.Disconnect: the wrapper afterwards and the error returned,
\* out being what s.client.Close() does when it is called.
Disconnect(s, out) ==
  IF s.client # "nil"
    THEN IF out.err # NoError
           THEN [ s |-> [ s EXCEPT !.client = out.client ], err |-> ErrClose ]
           ELSE [ s |-> [ s EXCEPT !.client = out.client, !.connected = FALSE ],
                  err |-> NoError ]
    ELSE [ s |-> s, err |-> NoError ]

\* SSHClientWrapper.IsConnected
IsConnected(s) == s.connected

\* A wrapper as ssh.Connect returns it, or one with no ssh.Client (the zero
\* value of the struct); Disconnect has not been called.
DisconnectInit ==
  /\ heap = << >>
  /\ Connections = << >>
  /\ SelectedIndex = 0
  /\ Config = [ Connections |-> << >>, CommandHistory |-> << >> ]
  /\ Commands = << >>
  /\ disk = [ Connections |-> << >>, CommandHistory |-> << >> ]
  /\ NewTUIModel
  /\ OutputScrollOffset = 0
  /\ authEnv = NoEnv
  /\ authMethods = Nil
  /\ pattern = << >>
  /\ host = << >>
  /\ matched = Nil
  /\ keyPaths = Nil
  /\ height = 0
  /\ rendered = Nil
  /\ wrapper \in { Ref(NewClient(1)),
                   Ref([ id |-> 1, connected |-> FALSE, client |-> "nil" ]) }
  /\ disconnected = << >>

\* err := wrapper.Disconnect(), followed by wrapper.IsConnected()
CallDisconnect ==
  \E out \in CloseOutcomes(Deref(wrapper).client) :
    LET r == Disconnect(Deref(wrapper), out) IN
      /\ Len(disconnected) < MaxCalls
      /\ wrapper' = Ref(r.s)
      /\ disconnected' = Append(disconnected,
                                [ err |-> r.err, connected |-> IsConnected(r.s),
                                  before |-> Deref(wrapper), after |-> r.s ])
      /\ UNCHANGED << appVars, uiVars, asyncVars, OutputScrollOffset, authEnv, authMethods,
                      pattern, host, matched, keyPaths, height, rendered >>

DisconnectNext == CallDisconnect

DisconnectSpec == DisconnectInit /\ [][DisconnectNext]_vars

\* C22: a call of Disconnect that returns no error leaves the wrapper not
\* connected (IsConnected() = false); a call on a wrapper with no transport, or
\* on one that an earlier call has already disconnected, returns no error and
\* leaves the wrapper as it was.
C22_DisconnectIdempotent ==
  \A i \in 1..Len(disconnected) :
    LET call == disconnected[i] IN
      /\ call.err = NoError => ~call.connected
      /\ (~IsConnected(call.before) \/ call.before.client = "nil") =>
            (call.err = NoError /\ call.after = call.before)

\* ------------------------------------------------- a connect, end to end
\* ssh.Connect(host, port, user, keyPath): (wrapper, err).  dial is what
\* ssh.Dial does with the methods offered, "ok" or "fail".
Connect(id, keyPath, h, dial) ==
  LET a == createAuthMethods(keyPath, h) IN
  IF a.err # NoError THEN [ client |-> Nil, err |-> ErrAuth ]
  ELSE IF dial # "ok" THEN [ client |-> Nil, err |-> ErrDial ]
  ELSE [ client |-> Ref(NewClient(id)), err |-> NoError ]

\* No Host line of the file matches h.
NoMatchingBlock(lines, h) ==
  \A i \in 1..Len(lines) :
    lines[i].kind = "Host" => ~matchSSHConfigPattern(lines[i].arg, h)

\* The environments of the scenario: no explicit key path, no agent to talk
\* to, no block of ~/.ssh/config for the host, and of all key files only
\* ~/.ssh/id_ed25519 readable and valid.
ScenarioEnvs ==
  [ keyPath : { "" },
    agent : { "unset", "nodial" },
    home : { TRUE },
    config : { Nil } \cup { Ref(c) : c \in { l \in ConfigsUpTo(MaxConfigLines) :
                                              NoMatchingBlock(l, AuthHost) } },
    files : { f \in [ KeyFiles -> { "ok", "unreadable", "unparsable" } ] :
                \A k \in KeyFiles : f[k] = "ok" <=> k = IdEd25519 } ]

\* NewTUIModel with the one connection of the scenario in the file.
ScenarioInit ==
  /\ heap = << NewConnectionState >>
  /\ Connections = << 1 >>
  /\ SelectedIndex = 0
  /\ Config = [ Connections |-> << 1 >>, CommandHistory |-> << >> ]
  /\ Commands = << >>
  /\ disk = [ Connections |-> << 1 >>, CommandHistory |-> << >> ]
  /\ NewTUIModel
  /\ OutputScrollOffset = 0
  /\ authEnv \in ScenarioEnvs
  /\ authMethods = Nil
  /\ pattern = << >>
  /\ host = AuthHost
  /\ matched = Nil
  /\ CallIdle

\* The keys of the scenario: connect, and moving the selection.
ScenarioKeys == { "c", "up", "down" }
ScenarioPressKey == \E k \in ScenarioKeys : KeyStep(k)

\* The closure of connectToSelectedServer, up to the return of ssh.Connect,
\* with the methods that createAuthMethods builds in the environment.
ScenarioConnect ==
  \E t \in tasks : \E dial \in { "ok", "fail" } :
    /\ t.kind = "connect" /\ t.phase = "dial"
    /\ authMethods' = Ref(createAuthMethods(authEnv.keyPath, host))
    /\ LET r == Connect(t.id, authEnv.keyPath, host, dial) IN
         IF r.err = NoError
           THEN /\ heap' = [ heap EXCEPT ![t.obj].Client = r.client ]
                /\ tasks' = (tasks \ { t }) \cup { [ t EXCEPT !.phase = "dialed" ] }
                /\ UNCHANGED msgs
           ELSE /\ msgs' = msgs \cup { ConnectResultMsg(t, SelectedIndex, FALSE, r.err) }
                /\ tasks' = tasks \ { t }
                /\ UNCHANGED heap
    /\ UNCHANGED << Connections, SelectedIndex, Config, Commands, disk, uiVars, nextTask,
                    OutputScrollOffset, authEnv, pattern, host, matched, callVars >>

ScenarioNext ==
  \/ ScenarioPressKey
  \/ ScenarioConnect
  \/ ConnectReturn
  \/ ConnectResult

ScenarioSpec == ScenarioInit /\ [][ScenarioNext]_vars

\* The one candidate of the scenario: the key of ~/.ssh/id_ed25519, found as
\* a default key.
DefaultKeyOnly ==
  [ methods |-> << [ from |-> "default", key |-> IdEd25519 ] >>, err |-> NoError ]

\* C24: in the scenario createAuthMethods returns exactly one candidate, the
\* default Ed25519 key, without error; the connection leaves Disconnected only
\* for Connecting, on the key "c"; it leaves Connecting only when the result
\* of the attempt is applied, for Connected when the attempt succeeded (its
\* client is then set) and for Error when it failed; and it becomes Connected
\* only from Connecting.
C24_DefaultKeyScenario ==
  [][ LET before == heap[1].Status
          after == heap'[1].Status
      IN /\ ~IsNil(authMethods') => Deref(authMethods') = DefaultKeyOnly
         /\ (before = StatusDisconnected /\ after # before)
              => (after = StatusConnecting /\ KeyStep("c"))
         /\ (before = StatusConnecting /\ after # before)
              => \E m \in msgs :
                   /\ m.type = "connectResultMsg" /\ Update(m)
                   /\ after = (IF m.success THEN StatusConnected ELSE StatusError)
                   /\ m.success => ~IsNil(heap'[1].Client)
         /\ (after = StatusConnected /\ before # after) => before = StatusConnecting
         /\ \A m \in msgs :
              (m.type = "connectResultMsg" /\ m.success /\ Update(m))
                => (before = StatusConnecting /\ after = StatusConnected)
    ]_vars

\* C24 witness: the connection is Connected, with a client, after an attempt
\* that offered exactly the default Ed25519 key.
C24_Witness ==
  /\ authEnv \in ScenarioEnvs
  /\ authMethods = Ref(DefaultKeyOnly)
  /\ heap[1].Status = StatusConnected
  /\ ~IsNil(heap[1].Client)

\* ------------------------------------------------- the scrollback and the list
\* The executions that complete: no Stderr, at most one character of Stdout.
ViewExecutions == { e \in LoggedExecutions : e.Stderr = << >> /\ Len(e.Stdout) <= 1 }

\* NewTUIModel with up to MaxObjs connections in the file, each connected since
\* and with nothing run on it yet.
ViewInit ==
  /\ \E n \in 0..MaxObjs :
       /\ heap = [ i \in 1..n |-> [ NewConnectionState EXCEPT !.Status = StatusConnected,
                                                              !.Client = Ref(NewClient(i)),
                                                              !.LastActive = "now" ] ]
       /\ Connections = [ i \in 1..n |-> i ]
  /\ SelectedIndex = 0
  /\ Config = [ Connections |-> Connections, CommandHistory |-> << >> ]
  /\ Commands = << >>
  /\ disk = Config
  /\ NewTUIModel
  /\ LibIdle

\* case "up", case "down": the selection moves
ViewSelect == \E k \in { "up", "down" } : KeyStep(k)

\* case "d": the selected connection is deleted
ViewDelete == KeyStep("d")

\* case commandResultMsg: a command run on the connection at some index has
\* completed, and its execution is appended to that connection's log.
ViewComplete ==
  \E index \in 0..(Len(Connections) - 1) : \E exec \in ViewExecutions :
    LET cs == Connections[index + 1] IN
      /\ Len(heap[cs].Executions) < MaxExecs
      /\ Update(CommandResultMsg(Task(0, "exec", cs, index, CmdA, "run"), index,
                                  Ref(exec), NoError))
      /\ UNCHANGED libVars

ViewNext ==
  \/ ScrollUp
  \/ ScrollDown
  \/ ViewSelect
  \/ ViewDelete
  \/ ViewComplete

ViewSpec == ViewInit /\ [][ViewNext]_vars

\* C27: OutputScrollOffset is at least 0 and at most the estimated total line
\* count of the selected connection's log, which is 0 when that log is empty
\* or no connection is selected.
C27_ScrollOffsetInRange ==
  /\ OutputScrollOffset >= 0
  /\ OutputScrollOffset <= (IF IsNil(GetSelected) THEN 0 ELSE SelectedTotal)

\* ------------------------------------------------- renderCommandOutput
\* The greatest terminal height.
MaxHeight == 22

\* strings.TrimRight(s, "\n")
RECURSIVE TrimRightNL(_)
TrimRightNL(s) ==
  IF s # << >> /\ s[Len(s)] = NL THEN TrimRightNL(SubSeq(s, 1, Len(s) - 1)) ELSE s

\* One line of allLines: what it is and, for a line of output, its text.
Line(kind, text) == [ kind |-> kind, text |-> text ]
TextLines(kind, texts) == [ i \in 1..Len(texts) |-> Line(kind, texts[i]) ]

\* The lines that the loop of renderCommandOutput appends for one execution
ExecLines(exec) ==
  << Line("blank", << >>), Line("command", exec.Command) >>
  \o (IF exec.Stdout # << >>
        THEN TextLines("stdout", SplitLines(TrimRightNL(exec.Stdout))) ELSE << >>)
  \o (IF exec.Stderr # << >>
        THEN << Line("stderr header", << >>) >>
             \o TextLines("stderr", SplitLines(TrimRightNL(exec.Stderr)))
        ELSE << >>)
  \o (IF exec.ExitCode # 0 THEN << Line("exit code", << >>) >> ELSE << >>)

\* allLines: the executions of the log, the latest first
RECURSIVE AllLines(_)
AllLines(execs) ==
  IF execs = << >> THEN << >>
  ELSE ExecLines(execs[Len(execs)]) \o AllLines(SubSeq(execs, 1, Len(execs) - 1))

\* The window that never pins endLine at totalLines
OutputWindow_NoEndClamp(offset, h, allLines) ==
  LET outputHeight == IF h - 15 < 5 THEN 5 ELSE h - 15
      totalLines == Len(allLines)
      endLine == offset + outputHeight
      clamped == IF offset > totalLines THEN totalLines ELSE offset
      startLine == IF clamped < 0 THEN 0 ELSE clamped
  IN [ startLine |-> startLine, endLine |-> endLine, totalLines |-> totalLines,
       drawn |-> { i \in startLine..(endLine - 1) : i < Len(allLines) },
       footer |-> totalLines > outputHeight ]

\* "Apply scrolling and viewport": the window of allLines that is drawn.
\* drawn holds the indices i of the loop, for which allLines[i] is read.
OutputWindow(offset, h, allLines) ==
  LET outputHeight == IF h - 15 < 5 THEN 5 ELSE h - 15
      totalLines == Len(allLines)
      unclampedEnd == offset + outputHeight
      clamped == IF offset > totalLines THEN totalLines ELSE offset
      endLine == IF unclampedEnd > totalLines THEN totalLines ELSE unclampedEnd
      startLine == IF clamped < 0 THEN 0 ELSE clamped
  IN [ startLine |-> startLine, endLine |-> endLine, totalLines |-> totalLines,
       drawn |-> { i \in startLine..(endLine - 1) : i < Len(allLines) },
       footer |-> totalLines > outputHeight ]

\* renderCommandOutput: the window drawn, or nil when it returns before
\* computing one (nothing selected, or nothing run yet and nothing running)
renderCommandOutput ==
  LET selected == GetSelected IN
  IF IsNil(selected) THEN Nil
  ELSE LET cs == heap[Deref(selected)] IN
    IF Len(cs.Executions) = 0 /\ IsNil(cs.CurrentExec) THEN Nil
    ELSE Ref(OutputWindow(OutputScrollOffset, height, AllLines(cs.Executions)))

\* The executions in a rendered log, and the logs.
RenderExecutions ==
  { [ e EXCEPT !.ExitCode = c ] :
      e \in { x \in LoggedExecutions : x.Stderr \in { << >>, << "x" >> } },
      c \in 0..MaxExit }
RECURSIVE RenderLogsUpTo(_)
RenderLogsUpTo(n) ==
  IF n = 0 THEN { << >> }
  ELSE LET shorter == RenderLogsUpTo(n - 1) IN
       shorter \cup { Append(w, x) : w \in shorter, x \in RenderExecutions }

\* No connection, or one connection, selected, with a log of executions and
\* perhaps a command running; the scroll offset is any that scrolling and
\* selecting lead to, and the terminal has reported its height.
RenderInit ==
  /\ \/ /\ heap = << >>
        /\ Connections = << >>
     \/ /\ \E log \in RenderLogsUpTo(MaxExecs) :
           \E cur \in { Nil, Ref([ Command |-> CmdA, ExitCode |-> 0,
                                       Completed |-> FALSE ]) } :
             /\ (log # << >> => cur = Nil)
             /\ heap = << [ NewConnectionState EXCEPT !.Status = StatusConnected,
                                                      !.Client = Ref(NewClient(1)),
                                                      !.LastActive = "now",
                                                      !.Executions = log,
                                                      !.CurrentExec = cur ] >>
        /\ Connections = << 1 >>
  /\ SelectedIndex = 0
  /\ Config = [ Connections |-> Connections, CommandHistory |-> << >> ]
  /\ Commands = << >>
  /\ disk = Config
  /\ NewTUIModel
  /\ OutputScrollOffset \in 0..MaxOffset
  /\ authEnv = NoEnv
  /\ authMethods = Nil
  /\ pattern = << >>
  /\ host = << >>
  /\ matched = Nil
  /\ keyPaths = Nil
  /\ height \in 0..MaxHeight
  /\ rendered = Nil
  /\ wrapper = Nil
  /\ disconnected = << >>

\* View calls renderCommandOutput.
Render ==
  /\ IsNil(rendered)
  /\ rendered' = Ref(renderCommandOutput)
  /\ UNCHANGED << appVars, uiVars, asyncVars, OutputScrollOffset, authEnv, authMethods,
                  pattern, host, matched, keyPaths, height, wrapper, disconnected >>

RenderNext == Render

RenderSpec == RenderInit /\ [][RenderNext]_vars

\* C28: whenever renderCommandOutput draws a window, 0 <= startLine <= endLine
\* <= totalLines, endLine - startLine <= max(height - 15, 5), totalLines is the
\* number of lines of the transcript, and every index read lies in the
\* transcript.
C28_WindowIsValidSlice ==
  (~IsNil(rendered) /\ ~IsNil(Deref(rendered))) =>
    LET w == Deref(Deref(rendered))
        viewport == IF height - 15 > 5 THEN height - 15 ELSE 5
    IN /\ 0 <= w.startLine
       /\ w.startLine <= w.endLine
       /\ w.endLine <= w.totalLines
       /\ w.endLine - w.startLine <= viewport
       /\ w.totalLines = Len(AllLines(heap[Deref(GetSelected)].Executions))
       /\ \A i \in w.drawn : 0 <= i /\ i < w.totalLines

\* C28 witness: a window was drawn that starts inside the transcript, after a
\* scroll, and is cut off at the transcript's end.
C28_Witness ==
  /\ ~IsNil(rendered)
  /\ ~IsNil(Deref(rendered))
  /\ LET w == Deref(Deref(rendered)) IN
       /\ OutputScrollOffset > 0
       /\ w.startLine = OutputScrollOffset
       /\ w.startLine < w.endLine
       /\ w.endLine = w.totalLines
       /\ w.endLine < OutputScrollOffset + 5

\* ------------------------------------------------- C29
\* The positions of the wildcards of a pattern; a wildcard is interior when it
\* is neither the first nor the last character.
Stars(pat) == { i \in 1..Len(pat) : pat[i] = "*" }
InteriorOrMultiple(pat) ==
  \/ \E i \in Stars(pat) : 1 < i /\ i < Len(pat)
  \/ Cardinality(Stars(pat)) > 1

\* C29: a pattern with an interior wildcard or with more than one wildcard
\* matches no host but the one that is textually the pattern itself.
C29_MultiWildcardNeverMatches ==
  (~IsNil(matched) /\ InteriorOrMultiple(pattern) /\ Deref(matched))
    => pattern = host

\* ------------------------------------------------- ssh: ~/.ssh/config alone
\* Most lines of the file scanned.
MaxScanLines == 4
\* The lines of the file: Host lines and IdentityFile lines, one of them with
\* "~", a comment, a blank line and a line of another keyword.
ScanLines ==
  ConfigLines
  \cup { [ kind |-> "IdentityFile", arg |-> TildeIdRsa ],
         [ kind |-> "comment", arg |-> << >> ],
         [ kind |-> "blank", arg |-> << >> ],
         [ kind |-> "other", arg |-> << >> ] }
RECURSIVE ScansUpTo(_)
ScansUpTo(n) ==
  IF n = 0 THEN { << >> }
  ELSE LET shorter == ScansUpTo(n - 1) IN
       shorter \cup { Append(w, l) : w \in shorter, l \in ScanLines }

\* A home directory or none, a file ~/.ssh/config or none; getSSHConfigKeyPaths
\* has not been called.
ConfigInit ==
  /\ heap = << >>
  /\ Connections = << >>
  /\ SelectedIndex = 0
  /\ Config = [ Connections |-> << >>, CommandHistory |-> << >> ]
  /\ Commands = << >>
  /\ disk = [ Connections |-> << >>, CommandHistory |-> << >> ]
  /\ NewTUIModel
  /\ OutputScrollOffset = 0
  /\ authEnv \in [ keyPath : { "" },
                    agent : { "unset" },
                    home : BOOLEAN,
                    config : { Nil } \cup { Ref(c) : c \in ScansUpTo(MaxScanLines) },
                    files : { [ f \in KeyFiles |-> "ok" ] } ]
  /\ authMethods = Nil
  /\ pattern = << >>
  /\ host = AuthHost
  /\ matched = Nil
  /\ CallIdle

\* for _, path := range getSSHConfigKeyPaths(host)
GetKeyPaths ==
  /\ IsNil(keyPaths)
  /\ keyPaths' = Ref(getSSHConfigKeyPaths(host))
  /\ UNCHANGED << appVars, uiVars, asyncVars, OutputScrollOffset, authEnv, authMethods,
                  pattern, host, matched, height, rendered, wrapper, disconnected >>

ConfigNext == GetKeyPaths

ConfigSpec == ConfigInit /\ [][ConfigNext]_vars

\* The last Host line before line i, or 0 when there is none.
BlockOf(lines, i) ==
  LET hosts == { j \in 1..(i - 1) : lines[j].kind = "Host" } IN
  IF hosts = { } THEN 0 ELSE CHOOSE j \in hosts : \A k \in hosts : k <= j
\* The IdentityFile lines that count for h: those whose last Host line before
\* them has a pattern that matches h.
CountedLines(lines, h) ==
  { i \in 1..Len(lines) :
      /\ lines[i].kind = "IdentityFile"
      /\ BlockOf(lines, i) # 0
      /\ matchSSHConfigPattern(lines[BlockOf(lines, i)].arg, h) }

\* C30: getSSHConfigKeyPaths returns the values of the IdentityFile lines
\* whose block (the last Host line before them) matches the host, one for each
\* such line and in file order (a leading "~" standing for the home
\* directory); lines before the first Host line and lines of other blocks give
\* nothing, and no comment, blank or other line ends a block.  Without a home
\* directory or without the file it returns nothing.
C30_ConfigKeyPaths ==
  ~IsNil(keyPaths) =>
    LET r == Deref(keyPaths) IN
    IF ~authEnv.home \/ IsNil(authEnv.config) THEN r = << >>
    ELSE LET lines == Deref(authEnv.config)
             counted == CountedLines(lines, host)
         IN /\ Len(r) = Cardinality(counted)
            /\ \A i \in counted :
                 LET rank == Cardinality({ j \in counted : j <= i }) IN
                 r[rank] = (IF lines[i].arg = TildeIdRsa THEN IdRsa ELSE lines[i].arg)

\* C30 witness: the file has an IdentityFile line before any Host line, then a
\* Host line that matches, a comment, and an IdentityFile line; only the last
\* line's value was returned.
C30_Witness ==
  /\ ~IsNil(keyPaths)
  /\ ~IsNil(authEnv.config)
  /\ LET lines == Deref(authEnv.config) IN
       /\ Len(lines) = 4
       /\ lines[1] = [ kind |-> "IdentityFile", arg |-> KeyC2 ]
       /\ lines[2].kind = "Host" /\ matchSSHConfigPattern(lines[2].arg, host)
       /\ lines[3].kind = "comment"
       /\ lines[4] = [ kind |-> "IdentityFile", arg |-> KeyC1 ]
  /\ keyPaths = Ref(<< KeyC1 >>)

\* ------------------------------------------------- C31
\* C31: across every step the execution log of a connection that is still in
\* the registry is unchanged or longer by exactly one record at its end, the
\* records before it being the same in the same order; and every record of a
\* log has Completed = true.
C31_LogAppendOnly ==
  [][ \A o \in DOMAIN heap :
        (o \in Registered /\ o \in Registered') =>
          LET old == heap[o].Executions
              new == heap'[o].Executions
          IN /\ \/ new = old
                \/ /\ Len(new) = Len(old) + 1
                   /\ SubSeq(new, 1, Len(old)) = old
             /\ \A i \in 1..Len(new) : new[i].Completed
    ]_vars

\* C31 witness: a connection of the registry has two records in its log, the
\* second not a copy of the first.
C31_Witness ==
  \E o \in Registered :
    /\ Len(heap[o].Executions) = 2
    /\ heap[o].Executions[1] # heap[o].Executions[2]

\* ------------------------------------------------- C32
\* C32: every connection of the registry whose status is Connected has a
\* Client that is not nil.
C32_ConnectedHasClient ==
  \A o \in Registered :
    heap[o].Status = StatusConnected => ~IsNil(heap[o].Client)

\* ------------------------------------------------- the AppState alone
\* The number of calls of AddConnection.
MaxAdds == 5

\* NewAppState: no connection, nothing selected but index 0.
RegistryInit ==
  /\ heap = << >>
  /\ Connections = << >>
  /\ SelectedIndex = 0
  /\ Config = [ Connections |-> << >>, CommandHistory |-> << >> ]
  /\ Commands = << >>
  /\ disk = [ Connections |-> << >>, CommandHistory |-> << >> ]
  /\ NewTUIModel
  /\ LibIdle

\* app.AddConnection(conn)
CallAdd ==
  /\ Len(heap) < MaxAdds
  /\ AddConnection
  /\ UNCHANGED << SelectedIndex, Commands, disk, uiVars, asyncVars, libVars >>

\* The indices DeleteConnection is called with: every valid one, and one on
\* either side.
DeleteIndices == -1..Len(Connections)

\* app.DeleteConnection(index)
CallDelete ==
  \E index \in DeleteIndices :
    /\ DeleteConnection(index)
    /\ UNCHANGED << heap, Commands, disk, uiVars, asyncVars, libVars >>

\* app.SelectNext()
CallSelectNext ==
  /\ SelectNext
  /\ UNCHANGED << heap, Connections, Config, Commands, disk, uiVars, asyncVars, libVars >>

\* app.SelectPrevious()
CallSelectPrevious ==
  /\ SelectPrevious
  /\ UNCHANGED << heap, Connections, Config, Commands, disk, uiVars, asyncVars, libVars >>

RegistryNext ==
  \/ CallAdd
  \/ CallDelete
  \/ CallSelectNext
  \/ CallSelectPrevious

RegistrySpec == RegistryInit /\ [][RegistryNext]_vars

\* ------------------------------------------------- C33
\* C33: SelectedIndex is 0 when there is no connection and else at least 0 and
\* less than the number of connections, so that GetSelected is nil only when
\* the registry is empty; and DeleteConnection with an index outside the list
\* returns an error and can change nothing, while with an index inside it
\* returns none.
C33_SelectedIndexInRange ==
  /\ Len(Connections) = 0 => SelectedIndex = 0
  /\ Len(Connections) > 0 => (0 <= SelectedIndex /\ SelectedIndex < Len(Connections))
  /\ IsNil(GetSelected) <=> Len(Connections) = 0
  /\ \A index \in DeleteIndices :
       IF index < 0 \/ index >= Len(Connections)
         THEN /\ DeleteConnectionErr(index)
              /\ ~ENABLED ( /\ DeleteConnection(index)
                            /\ UNCHANGED << heap, Commands, disk, uiVars, asyncVars, libVars >>
                            /\ << Connections, Config, SelectedIndex >>'
                                 # << Connections, Config, SelectedIndex >> )
         ELSE ~DeleteConnectionErr(index)

\* C33 witness: the last connection of three was selected and has been
\* deleted; the selection is on the connection that is now the last.
C33_Witness ==
  /\ Len(heap) = 3
  /\ Connections = << 1, 2 >>
  /\ SelectedIndex = 1

\* ------------------------------------------------- C34
\* C34: Config.Connections and Connections have the same length and, at every
\* index, the ConnectionState of Connections is that of the Connection in
\* Config.Connections; and every call of AddConnection appends a connection
\* that is Disconnected, with an empty execution log and no current execution.
C34_ConfigAndRegistryInLockstep ==
  /\ Len(Config.Connections) = Len(Connections)
  /\ \A i \in 1..Len(Connections) : Connections[i] = Config.Connections[i]
  /\ Len(heap) < MaxAdds =>
       ~ENABLED ( /\ CallAdd
                 /\ LET cs == heap'[Connections'[Len(Connections')]] IN
                      ~ ( /\ cs.Status = StatusDisconnected
                          /\ cs.Executions = << >>
                          /\ IsNil(cs.CurrentExec) ) )

\* C34 witness: connections were added and one in the middle was deleted.
C34_Witness ==
  /\ Len(heap) = 3
  /\ Connections = << 1, 3 >>
  /\ Config.Connections = << 1, 3 >>

\* ------------------------------------------------- C35
\* C35: for every execution log the total that ScrollOutputUp computes (3 for
\* each execution, the lines of its Stdout, and the lines of its Stderr and 1
\* more when Stderr is not empty) is at least the number of lines that
\* renderCommandOutput builds for the same log.
C35_EstimateCoversRendered ==
  (~IsNil(rendered) /\ ~IsNil(Deref(rendered))) =>
    LET log == heap[Deref(GetSelected)].Executions IN
    /\ Deref(Deref(rendered)).totalLines = Len(AllLines(log))
    /\ EstimateLines(log) >= Deref(Deref(rendered)).totalLines

\* C35 witness: a log was rendered whose executions each have output and a
\* non-zero exit code, so that the estimate is exactly the number of lines
\* rendered.
C35_Witness ==
  /\ ~IsNil(rendered)
  /\ ~IsNil(Deref(rendered))
  /\ LET log == heap[Deref(GetSelected)].Executions IN
       /\ Len(log) = 2
       /\ \A i \in 1..Len(log) : log[i].ExitCode # 0 /\ log[i].Stdout # << >>
       /\ EstimateLines(log) = Deref(Deref(rendered)).totalLines
====
